---- MODULE Spec2Model ----
(***************************************************************************)
(* A model of the financial-figure extraction pipeline of ai-doc-reader:   *)
(* the response interpretation of the two finance routes, the prompt       *)
(* generator, the analysis action and the figure registry editor.          *)
(*                                                                         *)
(* Texts are sequences of lexemes.  A lexeme is a punctuation character,   *)
(* a whitespace character, a JSON scalar literal, or a run of `len`        *)
(* characters that belong to no JSON lexeme ("junk": prose, markdown).     *)
(* JSON values are tagged records; an object is the sequence of its        *)
(* members in insertion order.                                             *)
(***************************************************************************)
EXTENDS Integers, Sequences, FiniteSets, TLC

VARIABLES
    registryFile,   \* src/config/analyzableFigures.json: [state, figures]
    serverYear,     \* new Date().getFullYear() on the server
    caller,         \* "ui": the analyzer component; "api": another HTTP client
    client,         \* the component's state: analysisMode, analysisType,
                    \* analyzableFigures, uploadedFiguresName, files
    payload,        \* the body of the POST to the route
    promptText,     \* the prompt the route generated
    backendRequests,\* requests sent to the chat workspace / the model
    pc,             \* idle, posted, awaiting, received, responded, shown
    backend,        \* "rag" (/api/finance) or "openai" (/api/finance/openai)
    rawText,        \* what the backend returned: [str, toks]
    steps,          \* the parse attempts the handler made, in order
    parsedData,     \* the handler's parsedData (a JSON value)
    httpStatus,     \* status of the route's response (0: none yet)
    responseError,  \* the error field of the route's response body
    financialData,  \* the client's financialData state
    error,          \* the client's error state ("" when null)
    editorFigures,  \* editor -> the figures state of its AnalyzableFiguresManager
    loading,        \* editor -> its loading state
    saving,         \* editor -> its saving state
    savesInFlight,  \* the POSTs to /api/analyzable-figures not yet answered
    lastWrite,      \* the operation whose POST wrote the registry file last
    operations,     \* the number of saves the editors have started
    chosenFile,     \* the spreadsheet picked in the file input, not yet imported
    questionAnalyzer, \* the question analyzer's state and its requests in flight
    storage,        \* the files on the server's disk and the last request's accesses
    auth            \* the login sessions of the server and the last request it was sent

requestVars == <<registryFile, serverYear, caller, client, payload, promptText,
                 backendRequests>>
interpVars == <<rawText, steps, parsedData, httpStatus, responseError,
                financialData, error>>

editorVars == <<editorFigures, loading, saving, savesInFlight, lastWrite,
                operations>>

vars == <<requestVars, interpVars, pc, backend, editorVars, chosenFile,
          questionAnalyzer, storage, auth>>

(***************************************************************************)
(* Bounds of the model and constants of the program.                       *)
(***************************************************************************)
\* longest text enumerated lexeme by lexeme
MaxTokens == 3
\* how far beyond the truncation limit a junk run may reach
MaxExtra == 1
\* responseText.substring(0, 1000)
RawResponseLimit == 1000
\* longest figure list in a request body and in the client
MaxOverride == 2
\* longest figure list in the registry file
MaxRegistry == 2
\* the years the server clock may show
FirstYear == 2025
LastYear == 2026

(***************************************************************************)
(* JSON values.                                                            *)
(***************************************************************************)
JNum(n) == [t |-> "num", n |-> n]
JStr(s) == [t |-> "str", s |-> s]
JBool(b) == [t |-> "bool", b |-> b]
JNull == [t |-> "null"]
JUndefined == [t |-> "undefined"]
JArr(items) == [t |-> "arr", items |-> items]
JObj(members) == [t |-> "obj", members |-> members]
\* a string value that holds a text of the model (raw_response)
JText(toks) == [t |-> "text", toks |-> toks]
Member(key, val) == [key |-> key, val |-> val]

(***************************************************************************)
(* Lexemes.                                                                *)
(***************************************************************************)
P(c) == [k |-> "p", c |-> c]
Ws == [k |-> "ws"]
Junk(n) == [k |-> "junk", len |-> n]
Lit(j) == [k |-> "lit", v |-> j]

IsP(tok, c) == tok.k = "p" /\ tok.c = c

\* number of characters of a lexeme; a literal is counted as one character
Width(tok) == IF tok.k = "junk" THEN tok.len ELSE 1

RECURSIVE TextLength(_)
TextLength(toks) ==
    IF toks = <<>> THEN 0 ELSE Width(Head(toks)) + TextLength(Tail(toks))

RECURSIVE Substring0(_, _)
\* String.prototype.substring(0, limit)
Substring0(toks, limit) ==
    IF toks = <<>> \/ limit <= 0 THEN <<>>
    ELSE LET h == Head(toks) IN
         IF Width(h) <= limit
         THEN <<h>> \o Substring0(Tail(toks), limit - Width(h))
         ELSE <<Junk(limit)>>

RECURSIVE TrimStart(_)
TrimStart(toks) ==
    IF toks # <<>> /\ Head(toks).k = "ws" THEN TrimStart(Tail(toks)) ELSE toks

RECURSIVE TrimEnd(_)
TrimEnd(toks) ==
    IF toks # <<>> /\ toks[Len(toks)].k = "ws"
    THEN TrimEnd(SubSeq(toks, 1, Len(toks) - 1))
    ELSE toks

\* String.prototype.trim()
Trim(toks) == TrimEnd(TrimStart(toks))

(***************************************************************************)
(* JSON.parse: a recursive-descent parser over the lexemes.                *)
(***************************************************************************)
ParseFail == [ok |-> FALSE, val |-> JUndefined, next |-> 0]
ParseOk(val, next) == [ok |-> TRUE, val |-> val, next |-> next]

RECURSIVE SkipWs(_, _)
SkipWs(s, i) ==
    IF i <= Len(s) /\ s[i].k = "ws" THEN SkipWs(s, i + 1) ELSE i

HasKey(members, key) == \E i \in 1..Len(members) : members[i].key = key

\* obj[key] = val: an existing key keeps its place and takes the new value
PutMember(members, key, val) ==
    IF HasKey(members, key)
    THEN [i \in 1..Len(members) |->
            IF members[i].key = key THEN Member(key, val) ELSE members[i]]
    ELSE Append(members, Member(key, val))

RECURSIVE ParseValue(_, _), ParseElems(_, _, _), ParseMembers(_, _, _)
ParseValue(s, i) ==
    LET j == SkipWs(s, i) IN
    IF j > Len(s) THEN ParseFail
    ELSE IF s[j].k = "lit" THEN ParseOk(s[j].v, j + 1)
    ELSE IF IsP(s[j], "[") THEN
        LET j2 == SkipWs(s, j + 1) IN
        IF j2 <= Len(s) /\ IsP(s[j2], "]") THEN ParseOk(JArr(<<>>), j2 + 1)
        ELSE ParseElems(s, j + 1, <<>>)
    ELSE IF IsP(s[j], "{") THEN
        LET j2 == SkipWs(s, j + 1) IN
        IF j2 <= Len(s) /\ IsP(s[j2], "}") THEN ParseOk(JObj(<<>>), j2 + 1)
        ELSE ParseMembers(s, j + 1, <<>>)
    ELSE ParseFail

ParseElems(s, i, acc) ==
    LET r == ParseValue(s, i) IN
    IF ~r.ok THEN ParseFail
    ELSE LET j == SkipWs(s, r.next) IN
         IF j > Len(s) THEN ParseFail
         ELSE IF IsP(s[j], ",") THEN ParseElems(s, j + 1, Append(acc, r.val))
         ELSE IF IsP(s[j], "]") THEN ParseOk(JArr(Append(acc, r.val)), j + 1)
         ELSE ParseFail

ParseMembers(s, i, acc) ==
    LET j == SkipWs(s, i) IN
    IF j > Len(s) \/ s[j].k # "lit" THEN ParseFail
    ELSE IF s[j].v.t # "str" THEN ParseFail
    ELSE LET c == SkipWs(s, j + 1) IN
         IF c > Len(s) THEN ParseFail
         ELSE IF ~IsP(s[c], ":") THEN ParseFail
         ELSE LET r == ParseValue(s, c + 1) IN
              IF ~r.ok THEN ParseFail
              ELSE LET e == SkipWs(s, r.next)
                       put == PutMember(acc, s[j].v.s, r.val) IN
                   IF e > Len(s) THEN ParseFail
                   ELSE IF IsP(s[e], ",") THEN ParseMembers(s, e + 1, put)
                   ELSE IF IsP(s[e], "}") THEN ParseOk(JObj(put), e + 1)
                   ELSE ParseFail

\* JSON.parse(text): [ok, val]; ok = FALSE stands for the SyntaxError thrown
JSONparse(toks) ==
    LET r == ParseValue(toks, 1) IN
    IF r.ok /\ SkipWs(toks, r.next) > Len(toks)
    THEN [ok |-> TRUE, val |-> r.val]
    ELSE [ok |-> FALSE, val |-> JUndefined]

(***************************************************************************)
(* JSON.stringify: compact, and with an indent (whitespace between the     *)
(* lexemes).                                                               *)
(***************************************************************************)
RECURSIVE Stringify(_, _), StringifyItems(_, _, _), StringifyMembers(_, _, _)
Stringify(v, pretty) ==
    IF v.t = "arr" THEN
        IF v.items = <<>> THEN <<P("["), P("]")>>
        ELSE <<P("[")>> \o StringifyItems(v.items, 1, pretty)
             \o (IF pretty THEN <<Ws>> ELSE <<>>) \o <<P("]")>>
    ELSE IF v.t = "obj" THEN
        IF v.members = <<>> THEN <<P("{"), P("}")>>
        ELSE <<P("{")>> \o StringifyMembers(v.members, 1, pretty)
             \o (IF pretty THEN <<Ws>> ELSE <<>>) \o <<P("}")>>
    ELSE <<Lit(v)>>

StringifyItems(items, i, pretty) ==
    IF i > Len(items) THEN <<>>
    ELSE (IF pretty THEN <<Ws>> ELSE <<>>)
         \o Stringify(items[i], pretty)
         \o (IF i < Len(items) THEN <<P(",")>> ELSE <<>>)
         \o StringifyItems(items, i + 1, pretty)

StringifyMembers(members, i, pretty) ==
    IF i > Len(members) THEN <<>>
    ELSE (IF pretty THEN <<Ws>> ELSE <<>>)
         \o <<Lit(JStr(members[i].key)), P(":")>>
         \o (IF pretty THEN <<Ws>> ELSE <<>>)
         \o Stringify(members[i].val, pretty)
         \o (IF i < Len(members) THEN <<P(",")>> ELSE <<>>)
         \o StringifyMembers(members, i + 1, pretty)

JSONstringify(v) == Stringify(v, FALSE)

(***************************************************************************)
(* text.match(/\{[\s\S]*\}/): from the first "{" to the last "}".          *)
(***************************************************************************)
Opens(toks) == {i \in 1..Len(toks) : IsP(toks[i], "{")}
Closes(toks) == {i \in 1..Len(toks) : IsP(toks[i], "}")}
MinOf(S) == CHOOSE m \in S : \A o \in S : m <= o
MaxOf(S) == CHOOSE m \in S : \A o \in S : m >= o

NoMatch == [found |-> FALSE, match |-> <<>>]

\* a lazy quantifier in place of the greedy one: up to the first "}"
RegexMatchLazy(toks) ==
    IF Opens(toks) = {} THEN NoMatch
    ELSE LET first == MinOf(Opens(toks))
             after == {j \in Closes(toks) : j > first} IN
         IF after = {} THEN NoMatch
         ELSE [found |-> TRUE, match |-> SubSeq(toks, first, MinOf(after))]

RegexMatch(toks) ==
    IF Opens(toks) = {} \/ Closes(toks) = {} THEN NoMatch
    ELSE LET first == MinOf(Opens(toks))
             last == MaxOf(Closes(toks)) IN
         IF first < last
         THEN [found |-> TRUE, match |-> SubSeq(toks, first, last)]
         ELSE NoMatch

(***************************************************************************)
(* JavaScript truthiness of a JSON value (if (!parsedData), and the        *)
(* client's if (result.parsedData)).                                       *)
(***************************************************************************)
Truthy(v) ==
    CASE v.t = "null" -> FALSE
      [] v.t = "undefined" -> FALSE
      [] v.t = "num" -> v.n # 0
      [] v.t = "str" -> v.s # ""
      [] v.t = "bool" -> v.b
      [] v.t = "text" -> v.toks # <<>>
      [] OTHER -> TRUE

(***************************************************************************)
(* The extraction-error record of the two routes.                          *)
(***************************************************************************)
RagSentinel(text) ==
    JObj(<<Member("extraction_error", JStr("Failed to parse AnythingLLM response")),
           Member("raw_response", text)>>)

OpenAISentinel(toks) ==
    JObj(<<Member("extraction_error", JStr("Failed to parse Responses API output")),
           Member("raw_response", JText(Substring0(toks, RawResponseLimit)))>>)

IsSentinel(v) ==
    /\ v.t = "obj"
    /\ Len(v.members) = 2
    /\ v.members[1].key = "extraction_error"
    /\ v.members[2].key = "raw_response"

\* the text a backend response carries; str = FALSE: no string at all
Text(toks) == [str |-> TRUE, toks |-> toks]
NoText == [str |-> FALSE, toks |-> <<>>]

(***************************************************************************)
(* Response interpretation of POST /api/finance (RAG/chat path).           *)
(***************************************************************************)
RagInterpretation(text) ==
    IF text.str
    THEN LET jsonMatch == RegexMatch(text.toks) IN
         IF jsonMatch.found
         THEN LET r == JSONparse(jsonMatch.match) IN
              IF r.ok
              THEN [steps |-> <<"lenient_ok">>, parsedData |-> r.val]
              ELSE [steps |-> <<"lenient_fail", "sentinel">>,
                    parsedData |-> RagSentinel(JText(text.toks))]
         ELSE LET r == JSONparse(text.toks) IN
              IF r.ok
              THEN [steps |-> <<"strict_ok">>, parsedData |-> r.val]
              ELSE [steps |-> <<"strict_fail", "sentinel">>,
                    parsedData |-> RagSentinel(JText(text.toks))]
    ELSE [steps |-> <<>>, parsedData |-> JNull]

(***************************************************************************)
(* Response interpretation of POST /api/finance/openai (direct upload).    *)
(***************************************************************************)
\* extractResponseText: the trimmed output text, or null
ExtractResponseText(text) ==
    IF text.str THEN Text(Trim(text.toks)) ELSE NoText

\* the nested JSON.parse outside a try block: its SyntaxError leaves the handler
OpenAIInterpretationNoNestedTry(text) ==
    LET responseText == ExtractResponseText(text) IN
    IF ~responseText.str \/ responseText.toks = <<>>
    THEN [thrown |-> TRUE, steps |-> <<>>, parsedData |-> JUndefined]
    ELSE LET strict == JSONparse(responseText.toks) IN
         IF strict.ok
         THEN [thrown |-> FALSE, steps |-> <<"strict_ok">>, parsedData |-> strict.val]
         ELSE LET jsonMatch == RegexMatch(responseText.toks) IN
              IF ~jsonMatch.found
              THEN [thrown |-> FALSE, steps |-> <<"strict_fail", "sentinel">>,
                    parsedData |-> OpenAISentinel(responseText.toks)]
              ELSE IF JSONparse(jsonMatch.match).ok
              THEN [thrown |-> FALSE, steps |-> <<"strict_fail", "lenient_ok">>,
                    parsedData |-> JSONparse(jsonMatch.match).val]
              ELSE [thrown |-> TRUE, steps |-> <<"strict_fail", "lenient_fail">>,
                    parsedData |-> JUndefined]

\* thrown = TRUE: 'No textual output returned from OpenAI Responses API'
OpenAIInterpretation(text) ==
    LET responseText == ExtractResponseText(text) IN
    IF ~responseText.str \/ responseText.toks = <<>>
    THEN [thrown |-> TRUE, steps |-> <<>>, parsedData |-> JUndefined]
    ELSE LET strict == JSONparse(responseText.toks) IN
         IF strict.ok
         THEN [thrown |-> FALSE, steps |-> <<"strict_ok">>, parsedData |-> strict.val]
         ELSE LET jsonMatch == RegexMatch(responseText.toks)
                  nested == IF jsonMatch.found THEN JSONparse(jsonMatch.match)
                            ELSE [ok |-> FALSE, val |-> JUndefined] IN
              IF jsonMatch.found /\ nested.ok /\ Truthy(nested.val)
              THEN [thrown |-> FALSE, steps |-> <<"strict_fail", "lenient_ok">>,
                    parsedData |-> nested.val]
              ELSE [thrown |-> FALSE,
                    steps |-> <<"strict_fail">>
                              \o (IF jsonMatch.found THEN <<"lenient_fail">> ELSE <<>>)
                              \o <<"sentinel">>,
                    parsedData |-> OpenAISentinel(responseText.toks)]

(***************************************************************************)
(* The figure registry file and loadAnalyzableFigures.                     *)
(***************************************************************************)
Figure(id, name, description) ==
    [id |-> id, name |-> name, description |-> description]

\* the defaults returned while src/config/analyzableFigures.json is missing
DefaultFigures ==
    << [id |-> "revenue", name |-> "Revenue", description |-> "Total revenue",
        enabled |-> TRUE, order |-> 1],
       [id |-> "profit", name |-> "Profit", description |-> "Net profit",
        enabled |-> TRUE, order |-> 2],
       [id |-> "costs", name |-> "Costs", description |-> "Total costs",
        enabled |-> TRUE, order |-> 3] >>

RECURSIVE FilterEnabled(_)
FilterEnabled(figs) ==
    IF figs = <<>> THEN <<>>
    ELSE (IF Head(figs).enabled THEN <<Head(figs)>> ELSE <<>>)
         \o FilterEnabled(Tail(figs))

RECURSIVE InsertByOrder(_, _)
InsertByOrder(sorted, fig) ==
    IF sorted = <<>> THEN <<fig>>
    ELSE IF fig.order < Head(sorted).order THEN <<fig>> \o sorted
    ELSE <<Head(sorted)>> \o InsertByOrder(Tail(sorted), fig)

RECURSIVE SortByOrder(_)
\* Array.prototype.sort((a, b) => a.order - b.order): stable
SortByOrder(figs) ==
    IF figs = <<>> THEN <<>>
    ELSE InsertByOrder(SortByOrder(SubSeq(figs, 1, Len(figs) - 1)), figs[Len(figs)])

\* file: [state |-> "missing" | "corrupt" | "ok", figures |-> the list stored]
LoadAnalyzableFigures(file) ==
    CASE file.state = "missing" -> DefaultFigures
      [] file.state = "corrupt" -> <<>>
      [] OTHER -> SortByOrder(FilterEnabled(file.figures))

(***************************************************************************)
(* The prompt generator.  A prompt is the record of the sections of the    *)
(* template: the lead sentence and the figure lines as sequences of text   *)
(* segments, the rule block by its name, the example JSON as its text.     *)
(***************************************************************************)
CompanyPlaceholder == "{company_name}"

\* overrideFigures: [given |-> BOOLEAN, list |-> figures]
\* (overrideFigures && overrideFigures.length > 0) ? overrideFigures : load()
\* the faulty variant: an empty registry is replaced by the defaults
\* the faulty variant: the registry's figures whenever it has any
EffectiveFiguresRegistryFirst(override, file) ==
    IF LoadAnalyzableFigures(file) # <<>>
    THEN LoadAnalyzableFigures(file)
    ELSE override.list

EffectiveFiguresDefaults(override, file) ==
    IF override.given /\ Len(override.list) > 0
    THEN override.list
    ELSE IF LoadAnalyzableFigures(file) = <<>> THEN DefaultFigures
    ELSE LoadAnalyzableFigures(file)

EffectiveFigures(override, file) ==
    IF override.given /\ Len(override.list) > 0
    THEN override.list
    ELSE LoadAnalyzableFigures(file)

FigureLine(figure) ==
    <<"- ", figure.name, " -> ", figure.id, " (", figure.description, ")">>

FiguresList(figures) == [i \in 1..Len(figures) |-> FigureLine(figures[i])]

BasicEntry ==
    JObj(<<Member("value", JNum(15500000)),
           Member("currency", JStr("currency code")),
           Member("period", JStr("time period"))>>)

RECURSIVE ReduceBasicByName(_, _)
\* the entries keyed by the display name instead of the id
ReduceBasicByName(figures, acc) ==
    IF figures = <<>> THEN acc
    ELSE ReduceBasicByName(Tail(figures),
                              Append(acc, Member(Head(figures).name, BasicEntry)))

RECURSIVE ReduceBasic(_, _)
\* figures.reduce((acc, figure) => { acc[figure.id] = {...}; return acc }, {})
ReduceBasic(figures, acc) ==
    IF figures = <<>> THEN acc
    ELSE ReduceBasic(Tail(figures), PutMember(acc, Head(figures).id, BasicEntry))

JsonStructure(figures) ==
    JObj(<<Member("company_name", JStr("Company Name")),
           Member("report_period", JStr("2024 or Q4 2024 etc")),
           Member("currency", JStr("EUR or USD etc")),
           Member("financial_data", JObj(ReduceBasic(figures, <<>>)))>>)

\* 3 past years, the current year, 4 future years, as strings; seven labels
\* in the faulty variant
YearLabelsShort(currentYear) ==
    [i \in 1..7 |-> ToString(currentYear - 3 + i)]

YearLabels(currentYear) ==
    << ToString(currentYear - 3), ToString(currentYear - 2),
       ToString(currentYear - 1), ToString(currentYear),
       ToString(currentYear + 1), ToString(currentYear + 2),
       ToString(currentYear + 3), ToString(currentYear + 4) >>

YearEntry ==
    JObj(<<Member("value", JNull),
           Member("currency", JStr("currency code")),
           Member("note", JStr("Historical/Projected/Not found in documents"))>>)

RECURSIVE ReduceYears(_, _)
ReduceYears(years, acc) ==
    IF years = <<>> THEN acc
    ELSE ReduceYears(Tail(years), PutMember(acc, Head(years), YearEntry))

RECURSIVE ReduceTimeSeries(_, _, _)
ReduceTimeSeries(figures, years, acc) ==
    IF figures = <<>> THEN acc
    ELSE ReduceTimeSeries(Tail(figures), years,
            PutMember(acc, Head(figures).id,
                      JObj(<<Member("metric_name", JStr(Head(figures).name)),
                             Member("years", JObj(ReduceYears(years, <<>>)))>>)))

TimeSeriesStructure(figures, currentYear) ==
    JObj(<<Member("company_name", JStr("Company Name")),
           Member("currency", JStr("EUR or USD etc")),
           Member("analysis_type", JStr("timeseries")),
           Member("financial_data",
                  JObj(ReduceTimeSeries(figures, YearLabels(currentYear), <<>>)))>>)

BasePrompt(isOpenAI) ==
    IF isOpenAI
    THEN <<"You are a financial data extraction expert. Your task is to analyze PDF documents and extract key financial figures.">>
    ELSE <<"Please analyze all the uploaded PDF documents for ", CompanyPlaceholder,
           " and extract the key financial data.">>

TimeSeriesBasePrompt(isOpenAI) ==
    IF isOpenAI
    THEN <<"You are a financial data extraction expert specialized in time series analysis. Your task is to analyze PDF documents and extract historical and projected financial figures.">>
    ELSE <<"Please analyze all the uploaded PDF documents for ", CompanyPlaceholder,
           " and extract time series financial data spanning 8 years.">>

\* String.prototype.replace(placeholder, companyName) on one run of segments:
\* [done, segs]
ReplaceInSegments(segs, companyName) ==
    LET hits == {i \in 1..Len(segs) : segs[i] = CompanyPlaceholder} IN
    IF hits = {} THEN [done |-> FALSE, segs |-> segs]
    ELSE [done |-> TRUE,
          segs |-> [i \in 1..Len(segs) |->
                      IF i = MinOf(hits) THEN companyName ELSE segs[i]]]

RECURSIVE ReplaceInLines(_, _)
ReplaceInLines(lines, companyName) ==
    IF lines = <<>> THEN <<>>
    ELSE LET r == ReplaceInSegments(Head(lines), companyName) IN
         IF r.done THEN <<r.segs>> \o Tail(lines)
         ELSE <<Head(lines)>> \o ReplaceInLines(Tail(lines), companyName)

\* prompt.replace('{company_name}', companyName): the first occurrence only
ReplaceCompanyName(prompt, companyName) ==
    LET lead == ReplaceInSegments(prompt.lead, companyName) IN
    IF lead.done THEN [prompt EXCEPT !.lead = lead.segs]
    ELSE [prompt EXCEPT !.figuresList = ReplaceInLines(@, companyName)]

NoPrompt ==
    [thrown |-> FALSE, made |-> FALSE, lead |-> <<>>, figuresList |-> <<>>,
     rules |-> "", years |-> <<>>, example |-> <<>>]

\* throw new Error('No analyzable figures configured')
PromptError == [NoPrompt EXCEPT !.thrown = TRUE]

\* the faulty variant: the check of figures.length left out
GenerateFinancePromptUnchecked(companyName, isOpenAI, override, file) ==
    LET figures == EffectiveFigures(override, file) IN
    ReplaceCompanyName(
        [thrown |-> FALSE, made |-> TRUE,
         lead |-> BasePrompt(isOpenAI),
         figuresList |-> FiguresList(figures),
         rules |-> "basic",
         years |-> <<>>,
         example |-> Stringify(JsonStructure(figures), TRUE)],
        companyName)

GenerateFinancePrompt(companyName, isOpenAI, override, file) ==
    LET figures == EffectiveFigures(override, file) IN
    IF Len(figures) = 0 THEN PromptError
    ELSE ReplaceCompanyName(
            [thrown |-> FALSE, made |-> TRUE,
             lead |-> BasePrompt(isOpenAI),
             figuresList |-> FiguresList(figures),
             rules |-> "basic",
             years |-> <<>>,
             example |-> Stringify(JsonStructure(figures), TRUE)],
            companyName)

GenerateTimeSeriesFinancePrompt(companyName, isOpenAI, override, file, currentYear) ==
    LET figures == EffectiveFigures(override, file) IN
    IF Len(figures) = 0 THEN PromptError
    ELSE ReplaceCompanyName(
            [thrown |-> FALSE, made |-> TRUE,
             lead |-> TimeSeriesBasePrompt(isOpenAI),
             figuresList |-> FiguresList(figures),
             rules |-> "timeseries",
             years |-> YearLabels(currentYear),
             example |-> Stringify(TimeSeriesStructure(figures, currentYear), TRUE)],
            companyName)

(***************************************************************************)
(* The inputs of the model.                                                *)
(***************************************************************************)
SeqsUpTo(S, n) == UNION {[1..m -> S] : m \in 0..n}

Injective(list) ==
    \A i, j \in 1..Len(list) : list[i].id = list[j].id => i = j

\* figures as a request body may carry them: a repeated id, an empty
\* description, an id that is blank
OverridePool ==
    { Figure("revenue", "Revenue", "Total revenue"),
      Figure("revenue", "Sales", ""),
      Figure(" ", "Blank", "No id") }

\* figures as the spreadsheet import leaves them in the client
ClientPool ==
    { Figure("revenue", "Revenue", "Total revenue"),
      Figure("funding_raised", "Funding Raised", "No guidance provided.") }

ClientLists == {l \in SeqsUpTo(ClientPool, MaxOverride) : Injective(l)}

RegistryPool ==
    { [id |-> "revenue", name |-> "Revenue", description |-> "Total revenue"],
      [id |-> "profit", name |-> "Profit", description |-> "Net profit"] }

WithOrder(list, flags) ==
    [i \in 1..Len(list) |->
        [id |-> list[i].id, name |-> list[i].name,
         description |-> list[i].description,
         enabled |-> flags[i], order |-> i]]

RegistryLists ==
    UNION { {WithOrder(l, f) : l \in [1..n -> RegistryPool], f \in [1..n -> BOOLEAN]}
            : n \in 0..MaxRegistry }

\* a file edited by hand: the orders do not follow the list
UnsortedRegistry ==
    << [id |-> "profit", name |-> "Profit", description |-> "Net profit",
        enabled |-> TRUE, order |-> 2],
       [id |-> "revenue", name |-> "Revenue", description |-> "Total revenue",
        enabled |-> TRUE, order |-> 1] >>

RegistryFiles ==
    { [state |-> "missing", figures |-> <<>>],
      [state |-> "corrupt", figures |-> <<>>],
      [state |-> "ok", figures |-> UnsortedRegistry] }
    \cup {[state |-> "ok", figures |-> l] : l \in RegistryLists}

\* the registry files met by the requests that carry their own figure list
FewRegistryFiles ==
    { [state |-> "missing", figures |-> <<>>],
      [state |-> "corrupt", figures |-> <<>>],
      [state |-> "ok", figures |-> <<>>],
      [state |-> "ok", figures |-> UnsortedRegistry],
      [state |-> "ok", figures |-> <<[UnsortedRegistry[1] EXCEPT !.enabled = FALSE]>>] }

NoOverride == [given |-> FALSE, list |-> <<>>]
Override(list) == [given |-> TRUE, list |-> list]

NoPayload ==
    [workspaceSlug |-> "", companyName |-> "", analysisType |-> "basic",
     figures |-> NoOverride, files |-> 0]

ApiPayloads(type) ==
    { [workspaceSlug |-> "", companyName |-> "Acme", analysisType |-> type,
       figures |-> NoOverride, files |-> 1],
      [workspaceSlug |-> "acme", companyName |-> "", analysisType |-> type,
       figures |-> NoOverride, files |-> 0],
      [workspaceSlug |-> "acme", companyName |-> "Acme", analysisType |-> type,
       figures |-> NoOverride, files |-> 1] }
    \cup { [workspaceSlug |-> "acme", companyName |-> "Acme", analysisType |-> type,
            figures |-> Override(l), files |-> 1]
           : l \in SeqsUpTo(OverridePool, MaxOverride) }

EnabledOf(file) == LoadAnalyzableFigures(file)

StripFigure(f) == Figure(f.id, f.name, f.description)

\* the component's state once its figures are loaded
ClientStates(file) ==
    { [analysisMode |-> "config", analysisType |-> type,
       analyzableFigures |-> [i \in 1..Len(EnabledOf(file)) |->
                                StripFigure(EnabledOf(file)[i])],
       uploadedFiguresName |-> "", excelError |-> "", files |-> n]
      : type \in {"basic", "timeseries"}, n \in {0, 1} }
    \cup
    { [analysisMode |-> "excel", analysisType |-> type,
       analyzableFigures |-> l,
       uploadedFiguresName |-> IF l = <<>> THEN "" ELSE "figures.xlsx",
       excelError |-> "", files |-> 1]
      : type \in {"basic", "timeseries"}, l \in ClientLists }

NoClient ==
    [analysisMode |-> "config", analysisType |-> "basic",
     analyzableFigures |-> <<>>, uploadedFiguresName |-> "", excelError |-> "",
     files |-> 0]

(***************************************************************************)
(* The routes' handling of the figures a request carries.                  *)
(***************************************************************************)
\* String.prototype.trim() on the strings of the model
TrimStr(str) == IF str = " " THEN "" ELSE str

RECURSIVE SanitizeFigures(_)
\* figures.map(...).filter(figure => figure !== null)
SanitizeFigures(list) ==
    IF list = <<>> THEN <<>>
    ELSE LET figure == Head(list)
             id == TrimStr(figure.id)
             name == TrimStr(figure.name)
             description == TrimStr(figure.description) IN
         (IF id = "" \/ name = "" THEN <<>>
          ELSE <<Figure(id, name,
                        IF description = "" THEN "No guidance provided."
                        ELSE description)>>)
         \o SanitizeFigures(Tail(list))

\* overrideFigures of both routes: undefined unless a valid figure is left
OverrideFigures(figures) ==
    IF figures.given /\ Len(SanitizeFigures(figures.list)) > 0
    THEN Override(SanitizeFigures(figures.list))
    ELSE NoOverride

RoutePrompt(companyName, isOpenAI, body, file, year) ==
    IF body.analysisType = "timeseries"
    THEN GenerateTimeSeriesFinancePrompt(companyName, isOpenAI,
                                         OverrideFigures(body.figures), file, year)
    ELSE GenerateFinancePrompt(companyName, isOpenAI,
                               OverrideFigures(body.figures), file)

(***************************************************************************)
(* The analysis action.                                                    *)
(***************************************************************************)
\* payload.figures of analyzeFinance / analyzeWithOpenAI
PayloadFigures(list) ==
    [i \in 1..Len(list) |->
        Figure(list[i].id, list[i].name,
               IF list[i].description = "" THEN "No guidance provided."
               ELSE list[i].description)]

\* analyzeFinance (FinanceAnalyzer) and analyzeWithOpenAI: the click
AnalyzeFinance ==
    /\ pc = "idle"
    /\ caller = "ui"
    /\ IF backend = "openai" /\ client.files = 0
       THEN /\ error' = "Please select at least one PDF file"
            /\ pc' = "shown"
            /\ UNCHANGED payload
       ELSE IF /\ client.analysisMode = "excel"
               /\ (client.uploadedFiguresName = "" \/ Len(client.analyzableFigures) = 0)
       THEN /\ error' = "Upload an Excel file with at least one analyzable figure before running the analysis."
            /\ pc' = "shown"
            /\ UNCHANGED payload
       ELSE /\ error' = ""
            /\ payload' = [workspaceSlug |-> "acme", companyName |-> "Acme",
                           analysisType |-> client.analysisType,
                           figures |-> IF client.analysisMode = "excel"
                                       THEN Override(PayloadFigures(client.analyzableFigures))
                                       ELSE NoOverride,
                           files |-> client.files]
            /\ pc' = "posted"
    /\ UNCHANGED <<registryFile, serverYear, caller, client, promptText,
                   backendRequests, backend, rawText, steps, parsedData,
                   httpStatus, responseError, financialData>>
    /\ UNCHANGED <<editorVars, chosenFile, questionAnalyzer, storage, auth>>

\* a POST to the route from another HTTP client
DirectPost ==
    /\ pc = "idle"
    /\ caller = "api"
    /\ \E type \in {"basic", "timeseries"} : payload' \in ApiPayloads(type)
    /\ pc' = "posted"
    /\ UNCHANGED <<registryFile, serverYear, caller, client, promptText,
                   backendRequests, backend, interpVars>>
    /\ UNCHANGED <<editorVars, chosenFile, questionAnalyzer, storage, auth>>

Respond(status, message) ==
    /\ httpStatus' = status
    /\ responseError' = message
    /\ pc' = "responded"

\* POST /api/finance up to anythingLLM.sendMessage
RagRoute ==
    /\ pc = "posted"
    /\ backend = "rag"
    /\ IF payload.workspaceSlug = ""
       THEN Respond(400, "Workspace slug is required")
            /\ UNCHANGED <<promptText, backendRequests>>
       ELSE IF payload.companyName = ""
       THEN Respond(400, "Company name is required")
            /\ UNCHANGED <<promptText, backendRequests>>
       ELSE LET made == RoutePrompt(payload.companyName, FALSE, payload,
                                    registryFile, serverYear) IN
            /\ promptText' = made
            /\ IF made.thrown
               THEN Respond(500, "Failed to analyze financial data")
                    /\ UNCHANGED backendRequests
               ELSE /\ backendRequests' = backendRequests + 1
                    /\ pc' = "awaiting"
                    /\ UNCHANGED <<httpStatus, responseError>>
    /\ UNCHANGED <<registryFile, serverYear, caller, client, payload, backend,
                   rawText, steps, parsedData, financialData, error>>
    /\ UNCHANGED <<editorVars, chosenFile, questionAnalyzer, storage, auth>>

\* POST /api/finance/openai up to openai.responses.create
OpenAIRoute ==
    /\ pc = "posted"
    /\ backend = "openai"
    /\ IF payload.files = 0
       THEN Respond(400, "No supported files provided. Please upload PDF files only.")
            /\ UNCHANGED <<promptText, backendRequests>>
       ELSE LET made == RoutePrompt("the company", TRUE, payload,
                                    registryFile, serverYear) IN
            /\ promptText' = made
            /\ IF made.thrown
               THEN Respond(500, "No analyzable figures configured")
                    /\ UNCHANGED backendRequests
               ELSE /\ backendRequests' = backendRequests + 1
                    /\ pc' = "awaiting"
                    /\ UNCHANGED <<httpStatus, responseError>>
    /\ UNCHANGED <<registryFile, serverYear, caller, client, payload, backend,
                   rawText, steps, parsedData, financialData, error>>
    /\ UNCHANGED <<editorVars, chosenFile, questionAnalyzer, storage, auth>>

\* the retries the OpenAI client makes when it is built without maxRetries
OpenAIMaxRetries == 2

\* whether a failed request is sent again: makeRequest throws at once; the
\* OpenAI client repeats a request that failed in transport or with 408, 409,
\* 429 or 5xx until its retries are used up
Retried(adapter, retryable, requests) ==
    adapter = "openai" /\ retryable /\ requests <= OpenAIMaxRetries

\* what the backend answers while the analysis action is followed end to end
SampleTexts ==
    { Text(JSONstringify(JsonStructure(<<Figure("revenue", "Revenue", "Total revenue")>>))),
      Text(<<Junk(1)>>),
      Text(<<Lit(JNull)>>),
      NoText }

\* the backend answers, or the request fails (transport error, non-2xx)
BackendRespond ==
    /\ pc = "awaiting"
    /\ \/ /\ rawText' \in SampleTexts
          /\ pc' = "received"
          /\ UNCHANGED <<httpStatus, responseError, backendRequests>>
       \/ \E retryable \in BOOLEAN :
             IF Retried(backend, retryable, backendRequests)
             THEN /\ backendRequests' = backendRequests + 1
                  /\ UNCHANGED <<pc, rawText, httpStatus, responseError>>
             ELSE /\ Respond(500, IF backend = "rag"
                                  THEN "Failed to analyze financial data"
                                  ELSE "Connection error.")
                  /\ UNCHANGED <<rawText, backendRequests>>
    /\ UNCHANGED <<registryFile, serverYear, caller, client, payload, promptText,
                   backend, steps, parsedData, financialData, error>>
    /\ UNCHANGED <<editorVars, chosenFile, questionAnalyzer, storage, auth>>

\* POST /api/finance: the interpretation of result.textResponse
RagInterpret ==
    /\ pc = "received"
    /\ backend = "rag"
    /\ LET r == RagInterpretation(rawText) IN
       /\ steps' = r.steps
       /\ parsedData' = r.parsedData
    /\ Respond(200, "")
    /\ UNCHANGED <<requestVars, backend, rawText, financialData, error>>
    /\ UNCHANGED <<editorVars, chosenFile, questionAnalyzer, storage, auth>>

\* POST /api/finance/openai: the interpretation of the response's text
OpenAIInterpret ==
    /\ pc = "received"
    /\ backend = "openai"
    /\ LET r == OpenAIInterpretation(rawText) IN
       /\ steps' = r.steps
       /\ parsedData' = r.parsedData
       /\ IF r.thrown
          THEN Respond(500, "No textual output returned from OpenAI Responses API")
          ELSE Respond(200, "")
    /\ UNCHANGED <<requestVars, backend, rawText, financialData, error>>
    /\ UNCHANGED <<editorVars, chosenFile, questionAnalyzer, storage, auth>>

\* the component's handling of the route's response
ClientReceive ==
    /\ pc = "responded"
    /\ IF httpStatus # 200
       THEN /\ error' = IF backend = "rag" THEN "Failed to analyze financial data"
                        ELSE IF responseError # "" THEN responseError
                        ELSE "Failed to analyze files with OpenAI"
            /\ UNCHANGED financialData
       ELSE IF Truthy(parsedData)
       THEN /\ financialData' = parsedData
            /\ UNCHANGED error
       ELSE /\ error' = "No financial data received"
            /\ UNCHANGED financialData
    /\ pc' = "shown"
    /\ UNCHANGED <<requestVars, backend, rawText, steps, parsedData, httpStatus,
                   responseError>>
    /\ UNCHANGED <<editorVars, chosenFile, questionAnalyzer, storage, auth>>

(***************************************************************************)
(* The figure registry editor (AnalyzableFiguresManager) and the route     *)
(* /api/analyzable-figures.  A name typed into the form is the sequence of *)
(* its characters.                                                         *)
(***************************************************************************)
EditorIds == {"e1", "e2"}

\* the most figures an editor's list may hold for the Add button to be used
MaxFigures == 2

\* the most saves in flight at a time
MaxInFlight == 2

\* the most saves the editors start in one behaviour
MaxOperations == 3

LowerCase(c) ==
    CASE c = "R" -> "r"
      [] c = "P" -> "p"
      [] OTHER -> c

\* the characters of [a-z0-9]
LowerAlnum ==
    { "a", "b", "c", "d", "e", "f", "g", "h", "i", "j", "k", "l", "m",
      "n", "o", "p", "q", "r", "s", "t", "u", "v", "w", "x", "y", "z",
      "0", "1", "2", "3", "4", "5", "6", "7", "8", "9" }

IsSlugChar(c) == c \in LowerAlnum

RECURSIVE ReplaceNonSlugKeepCase(_)
\* the faulty variant: the name is not lower-cased
ReplaceNonSlugKeepCase(chars) ==
    IF chars = <<>> THEN <<>>
    ELSE <<IF IsSlugChar(LowerCase(Head(chars))) THEN Head(chars) ELSE "_">>
         \o ReplaceNonSlugKeepCase(Tail(chars))

RECURSIVE ReplaceNonSlug(_)
\* .toLowerCase().replace(/[^a-z0-9]/g, '_')
ReplaceNonSlug(chars) ==
    IF chars = <<>> THEN <<>>
    ELSE <<IF IsSlugChar(LowerCase(Head(chars))) THEN LowerCase(Head(chars)) ELSE "_">>
         \o ReplaceNonSlug(Tail(chars))

RECURSIVE CollapseUnderscores(_)
\* .replace(/_+/g, '_')
CollapseUnderscores(chars) ==
    IF Len(chars) < 2 THEN chars
    ELSE IF chars[1] = "_" /\ chars[2] = "_" THEN CollapseUnderscores(Tail(chars))
    ELSE <<Head(chars)>> \o CollapseUnderscores(Tail(chars))

\* .replace(/^_|_$/g, '')
StripUnderscores(chars) ==
    LET front == IF chars # <<>> /\ Head(chars) = "_" THEN Tail(chars) ELSE chars IN
    IF front # <<>> /\ front[Len(front)] = "_"
    THEN SubSeq(front, 1, Len(front) - 1)
    ELSE front

RECURSIVE Join(_)
\* the string made of the characters
Join(chars) == IF chars = <<>> THEN "" ELSE Head(chars) \o Join(Tail(chars))

\* the characters of the id generateId derives
SlugOf(chars) == StripUnderscores(CollapseUnderscores(ReplaceNonSlug(chars)))

generateId(chars) == Join(SlugOf(chars))

RECURSIVE TrimChars(_)
\* String.prototype.trim() on a typed name
TrimChars(chars) ==
    IF chars # <<>> /\ Head(chars) = " " THEN TrimChars(Tail(chars))
    ELSE IF chars # <<>> /\ chars[Len(chars)] = " "
    THEN TrimChars(SubSeq(chars, 1, Len(chars) - 1))
    ELSE chars

\* the names typed into the Add form
TypedNames ==
    { <<"R", "e", "v">>, <<"r", "e", "v", "!">>, <<" ">>, <<"-">>,
      <<" ", "P", "-", "-", "1">> }

TypedDescription == "What to extract"

IdsOf(figs) == {figs[i].id : i \in 1..Len(figs)}

\* figures.findIndex(f => f.id === id), 1-based; 0 when there is none
FindIndex(figs, id) ==
    IF id \in IdsOf(figs)
    THEN MinOf({i \in 1..Len(figs) : figs[i].id = id})
    ELSE 0

RECURSIVE FilterOut(_, _)
\* figures.filter(fig => fig.id !== id)
FilterOut(figs, id) ==
    IF figs = <<>> THEN <<>>
    ELSE (IF Head(figs).id # id THEN <<Head(figs)>> ELSE <<>>)
         \o FilterOut(Tail(figs), id)

\* figures.map((fig, index) => ({ ...fig, order: index + 1 }))
\* the faulty variant: the order numbers are not reassigned
RenumberKept(figs) == figs

Renumber(figs) == [i \in 1..Len(figs) |-> [figs[i] EXCEPT !.order = i]]

\* Array.prototype.splice(start, 0, item)
Splice(figs, start, item) ==
    LET at == IF start > Len(figs) THEN Len(figs) ELSE start IN
    SubSeq(figs, 1, at) \o <<item>> \o SubSeq(figs, at + 1, Len(figs))

\* Math.max(1, Math.min(figures.length, newOrder))
ValidOrder(figs, newOrder) ==
    MaxOf({1, MinOf({Len(figs), newOrder})})

\* the list updateFigureOrder saves when figures holds id
Reordered(figs, id, newOrder) ==
    LET validOrder == ValidOrder(figs, newOrder)
        figureToMove == figs[FindIndex(figs, id)] IN
    Renumber(Splice(FilterOut(figs, id), validOrder - 1,
                    [figureToMove EXCEPT !.order = validOrder]))

\* newFigures with the entries at i and j swapped
Swapped(figs, i, j) ==
    [k \in 1..Len(figs) |->
        IF k = i THEN figs[j] ELSE IF k = j THEN figs[i] ELSE figs[k]]

\* Math.max(...figures.map(f => f.order), 0) + 1
NextOrder(figs) == MaxOf({figs[i].order : i \in 1..Len(figs)} \cup {0}) + 1

\* an operation of the editor: its name, the id and the position it was
\* called with, the length of the list it was called on and whether that
\* list held an id twice
NoOperation == [name |-> "none", id |-> "", pos |-> 0, n |-> 0, repeated |-> FALSE]
Operation(name, id, pos, before) ==
    [name |-> name, id |-> id, pos |-> pos, n |-> Len(before),
     repeated |-> Cardinality(IdsOf(before)) < Len(before)]

\* saveFigures up to the fetch: the POST leaves with the whole list
saveFigures(e, updatedFigures, op) ==
    /\ Cardinality(savesInFlight) < MaxInFlight
    /\ operations < MaxOperations
    /\ operations' = operations + 1
    /\ savesInFlight' = savesInFlight \cup
                          {[editor |-> e, figures |-> updatedFigures, op |-> op,
                            answer |-> "none"]}
    /\ saving' = [saving EXCEPT ![e] = TRUE]
    /\ UNCHANGED <<editorFigures, loading, lastWrite, registryFile>>

\* the route's validation of the figures of a POST
ValidConfig(figs) ==
    \A i \in 1..Len(figs) :
        figs[i].id # "" /\ figs[i].name # "" /\ figs[i].description # ""

\* A file name is kept in the pieces the handlers look at: "report.pdf" is
\* stem and extension, "report.pdf-u1.json" adds the uuid and the suffix,
\* "u1.meta.json" is a stem with the suffix "meta.json".
Name(stem, ext, uuid, suffix) ==
    [stem |-> stem, ext |-> ext, uuid |-> uuid, suffix |-> suffix]

Plain(s) == Name(s, "", "", "")

DotDot == Plain("..")

NoName == Plain("")

\* the content of a file that is not a metadata file
NoMetadata == [originalName |-> NoName, storedName |-> NoName,
               docFilename |-> NoName, docId |-> "", metadataId |-> ""]

\* the working directory of the server and its document storage; a path is
\* the sequence of its segments
Cwd == <<Plain("app")>>
StorageRoot == Cwd \o <<Plain("storage")>>

NoAccess == [operation |-> "none", workspaceSlug |-> <<>>, paths |-> {},
             status |-> 0]

\* two workspaces, one with a document stored under its identifier and one
\* with a document stored under its original name, and a file of the application
InitialFiles ==
    (StorageRoot \o <<Plain("acme"), Name("u1", "pdf", "", "")>> :> NoMetadata)
    @@ (StorageRoot \o <<Plain("acme"), Name("u1", "", "", "meta.json")>> :>
          [originalName |-> Name("report", "pdf", "", ""),
           storedName |-> Name("u1", "pdf", "", ""),
           docFilename |-> NoName, docId |-> "", metadataId |-> "u1"])
    @@ (StorageRoot \o <<Plain("other"), Name("legacy", "pdf", "", "")>> :> NoMetadata)
    @@ (Cwd \o <<Name("README", "md", "", "")>> :> NoMetadata)

InitialStorage == [files |-> InitialFiles, access |-> NoAccess, requests |-> 0]

\* the server after its start: no session, no request yet
NoRequest == [pathname |-> <<>>, token |-> "", answer |-> "none"]
NoAuth == [sessions |-> {}, request |-> NoRequest]

\* the question analyzer before its questions are fetched
NoQuestions ==
    [questions |-> <<>>, runningAll |-> FALSE, i |-> 0, loops |-> 0,
     ignored |-> "", loading |-> {}, coverageLoading |-> {},
     requests |-> {}, results |-> {}, alerts |-> {}, sent |-> 0]

\* the file input with nothing selected
NoFile == [present |-> FALSE, rows |-> <<>>]

EditorsIdle ==
    /\ editorFigures = [e \in EditorIds |-> <<>>]
    /\ loading = [e \in EditorIds |-> TRUE]
    /\ saving = [e \in EditorIds |-> FALSE]
    /\ savesInFlight = {}
    /\ lastWrite = NoOperation
    /\ operations = 0
    /\ chosenFile = NoFile
    /\ questionAnalyzer = NoQuestions
    /\ storage = InitialStorage
    /\ auth = NoAuth

(***************************************************************************)
(* The analysis action from the click to the result.                       *)
(***************************************************************************)
InitInterp ==
    /\ steps = <<>>
    /\ parsedData = JUndefined
    /\ httpStatus = 0
    /\ responseError = ""
    /\ financialData = JNull
    /\ error = ""

Init ==
    /\ registryFile \in RegistryFiles
    /\ serverYear \in FirstYear..LastYear
    /\ backend \in {"rag", "openai"}
    /\ caller \in {"ui", "api"}
    /\ client \in (IF caller = "ui" THEN ClientStates(registryFile) ELSE {NoClient})
    /\ (caller = "api" \/ client.analysisType = "basic") => serverYear = FirstYear
    /\ (caller = "api" \/ client.analysisMode = "excel") =>
          registryFile \in FewRegistryFiles
    /\ payload = NoPayload
    /\ promptText = NoPrompt
    /\ backendRequests = 0
    /\ pc = "idle"
    /\ rawText = NoText
    /\ InitInterp
    /\ EditorsIdle

Next ==
    \/ AnalyzeFinance
    \/ DirectPost
    \/ RagRoute
    \/ OpenAIRoute
    \/ BackendRespond
    \/ RagInterpret
    \/ OpenAIInterpret
    \/ ClientReceive

Spec == Init /\ [][Next]_vars

(***************************************************************************)
(* The interpretation alone, on every text of a bounded family: the state  *)
(* in which a backend has just answered.                                   *)
(***************************************************************************)
Alphabet ==
    { P("{"), P("}"), P("["), P("]"), P(":"), P(","),
      Lit(JNum(1)), Lit(JStr("a")), Ws, Junk(1) }

ShortTexts == SeqsUpTo(Alphabet, MaxTokens)

JunkLengths ==
    {1, RawResponseLimit - 1, RawResponseLimit, RawResponseLimit + MaxExtra}

ObjA == JObj(<<Member("a", JNum(1))>>)

NestedObj ==
    JObj(<<Member("a", JObj(<<Member("b", JNull)>>)),
           Member("b", JArr(<<JNum(0), JObj(<<>>)>>))>>)

\* result objects of the target shapes: what the prompts ask for
ResultObjects ==
    { JsonStructure(l) : l \in {l \in ClientLists : l # <<>>} }
    \cup { TimeSeriesStructure(<<Figure("revenue", "Revenue", "Total revenue")>>, FirstYear) }

WellFormedObjects == {JObj(<<>>), ObjA, NestedObj} \cup ResultObjects

NonObjects ==
    { JNum(0), JNum(1), JStr(""), JStr("a"), JBool(TRUE), JBool(FALSE), JNull,
      JArr(<<>>), JArr(<<JNum(1)>>), JArr(<<ObjA>>), JArr(<<ObjA, NestedObj>>) }

Affixes ==
    { <<>>, <<Ws>>, <<Junk(1), P("}")>>, <<P("{"), Junk(1)>> }
    \cup {<<Junk(n)>> : n \in JunkLengths}

ValueTexts ==
    { Stringify(v, pretty) : v \in WellFormedObjects \cup NonObjects,
                             pretty \in BOOLEAN }

WrappedTexts ==
    { pre \o JSONstringify(v) \o post :
        pre \in Affixes, post \in Affixes,
        v \in {ObjA, NestedObj, JArr(<<ObjA>>), JNum(1)} }

JunkTexts ==
    { <<Junk(n)>> \o t : n \in JunkLengths, t \in SeqsUpTo({P("{"), P("}"), Ws}, 1) }

RawTexts ==
    {NoText}
    \cup {Text(t) : t \in ShortTexts \cup ValueTexts \cup WrappedTexts \cup JunkTexts}

InitReceived ==
    /\ registryFile = [state |-> "missing", figures |-> <<>>]
    /\ serverYear = FirstYear
    /\ backend \in {"rag", "openai"}
    /\ caller = "api"
    /\ client = NoClient
    /\ payload = NoPayload
    /\ promptText = NoPrompt
    /\ backendRequests = 1
    /\ pc = "received"
    /\ rawText \in RawTexts
    /\ InitInterp
    /\ EditorsIdle

NextInterp ==
    \/ RagInterpret
    \/ OpenAIInterpret
    \/ ClientReceive

SpecInterp == InitReceived /\ [][NextInterp]_vars

(***************************************************************************)
(* The registry editors at work: two browser sessions on one registry file.*)
(***************************************************************************)
analysisVars == <<serverYear, caller, client, payload, promptText,
                  backendRequests, interpVars, pc, backend, chosenFile,
                  questionAnalyzer, storage, auth>>

\* loadFigures on mount, with GET /api/analyzable-figures
loadFigures ==
    \E e \in EditorIds :
        /\ loading[e]
        /\ loading' = [loading EXCEPT ![e] = FALSE]
        /\ CASE registryFile.state = "missing" ->
                  /\ registryFile' = [state |-> "ok", figures |-> DefaultFigures]
                  /\ editorFigures' = [editorFigures EXCEPT ![e] = SortByOrder(DefaultFigures)]
             [] registryFile.state = "corrupt" ->
                  UNCHANGED <<registryFile, editorFigures>>
             [] OTHER ->
                  /\ editorFigures' = [editorFigures EXCEPT
                                         ![e] = SortByOrder(registryFile.figures)]
                  /\ UNCHANGED registryFile
        /\ UNCHANGED <<saving, savesInFlight, lastWrite, operations, analysisVars>>

toggleFigure ==
    \E e \in EditorIds : \E id \in IdsOf(editorFigures[e]) :
        /\ ~loading[e]
        /\ saveFigures(e,
              [i \in 1..Len(editorFigures[e]) |->
                  IF editorFigures[e][i].id = id
                  THEN [editorFigures[e][i] EXCEPT !.enabled = ~@]
                  ELSE editorFigures[e][i]],
              Operation("toggle", id, 0, editorFigures[e]))
        /\ UNCHANGED analysisVars

\* saveEditing and updateFigure: the name of the figure edited
updateFigure ==
    \E e \in EditorIds : \E id \in IdsOf(editorFigures[e]) :
        /\ ~loading[e]
        /\ saveFigures(e,
              [i \in 1..Len(editorFigures[e]) |->
                  IF editorFigures[e][i].id = id
                  THEN [editorFigures[e][i] EXCEPT !.name = "Renamed"]
                  ELSE editorFigures[e][i]],
              Operation("update", id, 0, editorFigures[e]))
        /\ UNCHANGED analysisVars

deleteFigure ==
    \E e \in EditorIds : \E id \in IdsOf(editorFigures[e]) :
        /\ ~loading[e]
        /\ saveFigures(e, FilterOut(editorFigures[e], id),
                       Operation("delete", id, 0, editorFigures[e]))
        /\ UNCHANGED analysisVars

\* a call with an id the list does not hold returns at once
updateFigureOrder ==
    \E e \in EditorIds :
      \E id \in IdsOf(editorFigures[e]) \cup {"absent"} :
        \E newOrder \in 0..(Len(editorFigures[e]) + 1) :
            /\ ~loading[e]
            /\ FindIndex(editorFigures[e], id) # 0
            /\ saveFigures(e, Reordered(editorFigures[e], id, newOrder),
                           Operation("reorder", id, newOrder, editorFigures[e]))
            /\ UNCHANGED analysisVars

\* nothing is saved for the first figure
moveFigureUp ==
    \E e \in EditorIds : \E id \in IdsOf(editorFigures[e]) :
        LET currentIndex == FindIndex(editorFigures[e], id) IN
        /\ ~loading[e]
        /\ currentIndex > 1
        /\ saveFigures(e,
               Renumber(Swapped(editorFigures[e], currentIndex - 1, currentIndex)),
               Operation("up", id, 0, editorFigures[e]))
        /\ UNCHANGED analysisVars

\* nothing is saved for the last figure
moveFigureDown ==
    \E e \in EditorIds : \E id \in IdsOf(editorFigures[e]) :
        LET currentIndex == FindIndex(editorFigures[e], id) IN
        /\ ~loading[e]
        /\ currentIndex < Len(editorFigures[e])
        /\ saveFigures(e,
               Renumber(Swapped(editorFigures[e], currentIndex, currentIndex + 1)),
               Operation("down", id, 0, editorFigures[e]))
        /\ UNCHANGED analysisVars

\* the Add button is disabled while saving; a blank name returns at once
addFigure ==
    \E e \in EditorIds : \E typed \in TypedNames :
        /\ ~loading[e]
        /\ ~saving[e]
        /\ Len(editorFigures[e]) < MaxFigures
        /\ TrimChars(typed) # <<>>
        /\ saveFigures(e,
               Append(editorFigures[e],
                      [id |-> generateId(typed),
                       name |-> Join(TrimChars(typed)),
                       description |-> TypedDescription,
                       enabled |-> TRUE,
                       order |-> NextOrder(editorFigures[e])]),
               Operation("add", generateId(typed), 0, editorFigures[e]))
        /\ UNCHANGED analysisVars

\* a save completes: POST /api/analyzable-figures writes the whole list and
\* saveFigures takes it as the editor's figures, or the POST is rejected or
\* fails and only the console hears of it
SaveCompletes ==
    \E r \in savesInFlight :
        /\ r.answer = "none"
        /\ savesInFlight' = savesInFlight \ {r}
        /\ saving' = [saving EXCEPT ![r.editor] = FALSE]
        /\ \/ /\ ValidConfig(r.figures)
              /\ registryFile' = [state |-> "ok", figures |-> r.figures]
              /\ lastWrite' = r.op
              /\ editorFigures' = [editorFigures EXCEPT ![r.editor] = r.figures]
           \/ UNCHANGED <<registryFile, lastWrite, editorFigures>>
        /\ UNCHANGED <<loading, operations, analysisVars>>

InitRegistry ==
    /\ registryFile \in { [state |-> "corrupt", figures |-> <<>>],
                          [state |-> "ok", figures |-> <<>>],
                          [state |-> "ok", figures |-> UnsortedRegistry] }
    /\ serverYear = FirstYear
    /\ backend = "rag"
    /\ caller = "ui"
    /\ client = NoClient
    /\ payload = NoPayload
    /\ promptText = NoPrompt
    /\ backendRequests = 0
    /\ pc = "idle"
    /\ rawText = NoText
    /\ InitInterp
    /\ EditorsIdle

NextRegistry ==
    \/ loadFigures
    \/ toggleFigure
    \/ updateFigure
    \/ deleteFigure
    \/ updateFigureOrder
    \/ moveFigureUp
    \/ moveFigureDown
    \/ addFigure
    \/ SaveCompletes

SpecRegistry == InitRegistry /\ [][NextRegistry]_vars

(***************************************************************************)
(* Properties of the response interpretation (SpecInterp).                 *)
(***************************************************************************)
InterpretationDone == pc \in {"responded", "shown"}

Blank(text) == Trim(text.toks) = <<>>
StrictOk(text) == JSONparse(text.toks).ok
LenientOk(text) ==
    /\ RegexMatch(text.toks).found
    /\ JSONparse(RegexMatch(text.toks).match).ok
Unparsable(text) == ~StrictOk(text) /\ ~LenientOk(text)

ParsedOrSentinel ==
    \/ StrictOk(rawText) /\ parsedData = JSONparse(rawText.toks).val
    \/ LenientOk(rawText) /\ parsedData = JSONparse(RegexMatch(rawText.toks).match).val
    \/ IsSentinel(parsedData)

RawResponse(v) == v.members[2].val

\* C1 as stated: for every raw text the interpretation completes without
\* throwing and yields a parsed result or the extraction-error record; an
\* unparsable text never ends in a failed request or an empty result.
C1_EveryTextInterpreted ==
    (InterpretationDone /\ rawText.str) =>
        /\ httpStatus = 200
        /\ ParsedOrSentinel
        /\ Unparsable(rawText) =>
              /\ IsSentinel(parsedData)
              /\ pc = "shown" => (error = "" /\ financialData = parsedData)

\* C1 as amended: the same for every text on the RAG path and for every text
\* that is not blank on the direct-upload path; a blank text ends the
\* direct-upload request with status 500 and the message 'No textual output'.
C1_NonBlankTextInterpreted ==
    (InterpretationDone /\ rawText.str) =>
        IF backend = "openai" /\ Blank(rawText)
        THEN /\ httpStatus = 500
             /\ pc = "shown" =>
                  error = "No textual output returned from OpenAI Responses API"
        ELSE /\ httpStatus = 200
             /\ ParsedOrSentinel
             /\ Unparsable(rawText) =>
                   /\ IsSentinel(parsedData)
                   /\ pc = "shown" => (error = "" /\ financialData = parsedData)

C1_Witness ==
    /\ pc = "shown"
    /\ backend = "openai"
    /\ rawText.str /\ ~Blank(rawText) /\ Unparsable(rawText)
    /\ RegexMatch(rawText.toks).found
    /\ IsSentinel(financialData)

\* C2: for a well-formed result object X, the interpretation of
\* JSON.stringify(X) is X, on the RAG path and on the direct-upload path.
C2_StrictRoundTrip ==
    InterpretationDone =>
        \A X \in WellFormedObjects :
            rawText = Text(JSONstringify(X)) =>
                (httpStatus = 200 /\ parsedData = X)

C2_Witness ==
    /\ pc = "shown"
    /\ backend = "rag"
    /\ rawText = Text(JSONstringify(
                    TimeSeriesStructure(<<Figure("revenue", "Revenue", "Total revenue")>>,
                                        FirstYear)))
    /\ financialData = TimeSeriesStructure(<<Figure("revenue", "Revenue", "Total revenue")>>,
                                           FirstYear)

\* C3 as stated, for the texts from which nothing can be parsed and that are
\* not blank: the result is the extraction-error record and its raw_response
\* holds at most the first 1000 characters of the raw text, on either path.
C3_RawResponseTruncated ==
    (InterpretationDone /\ rawText.str /\ ~Blank(rawText) /\ Unparsable(rawText)) =>
        /\ IsSentinel(parsedData)
        /\ RawResponse(parsedData).t = "text"
        /\ TextLength(RawResponse(parsedData).toks) <= RawResponseLimit

\* C4 as stated: what the interpretation produces is a JSON object; a text
\* that is valid JSON but no object is never returned as the result.
C4_ResultIsObject ==
    (InterpretationDone /\ rawText.str /\ httpStatus = 200) =>
        parsedData.t = "obj"

\* C5 as stated, in two consequences: (a) a text that is not valid JSON as a
\* whole and whose span from the first "{" to the last "}" is a JSON object
\* yields that object; (b) the lenient extraction is used only after the
\* strict parse has failed, so a text that is valid JSON as a whole yields
\* the value of the strict parse.
C5_LenientOnlyAfterStrict ==
    (InterpretationDone /\ rawText.str /\ ~Blank(rawText)) =>
        /\ (~StrictOk(rawText) /\ LenientOk(rawText)) =>
              parsedData = JSONparse(RegexMatch(rawText.toks).match).val
        /\ StrictOk(rawText) => parsedData = JSONparse(rawText.toks).val

(***************************************************************************)
(* Properties of the prompt generator within the analysis action (Spec).   *)
(***************************************************************************)
\* the number of braces open at position i of a JSON text
BraceDepth(toks, i) ==
    Cardinality({j \in 1..(i - 1) : IsP(toks[j], "{")})
      - Cardinality({j \in 1..(i - 1) : IsP(toks[j], "}")})

\* the positions at which an object key is written at brace depth d
KeyPositions(toks, d) ==
    {i \in 1..Len(toks) :
        /\ toks[i].k = "lit"
        /\ toks[i].v.t = "str"
        /\ SkipWs(toks, i + 1) <= Len(toks)
        /\ IsP(toks[SkipWs(toks, i + 1)], ":")
        /\ BraceDepth(toks, i) = d}

\* the object keys written in a JSON text at brace depth d, in text order
KeysAtDepth(toks, d) ==
    LET at == KeyPositions(toks, d) IN
    [n \in 1..Cardinality(at) |->
        toks[CHOOSE i \in at : Cardinality({j \in at : j <= i}) = n].v.s]

NoDuplicates(list) == \A i, j \in 1..Len(list) : list[i] = list[j] => i = j

MemberVal(obj, key) ==
    obj.members[CHOOSE i \in 1..Len(obj.members) : obj.members[i].key = key].val

KeysOf(obj) == [i \in 1..Len(obj.members) |-> obj.members[i].key]

\* the figure list the generator of the request works from
RequestFigures ==
    IF payload.figures.given /\ SanitizeFigures(payload.figures.list) # <<>>
    THEN SanitizeFigures(payload.figures.list)
    ELSE LoadAnalyzableFigures(registryFile)

FinancialDataKeys == KeysAtDepth(promptText.example, 2)

\* the prompt has been generated and handed to the backend
PromptSent == promptText.made /\ pc = "awaiting"

\* C6: the keys of financial_data in the example JSON of a generated prompt
\* (single-period or timeseries) are exactly the ids of the figure list the
\* prompt was generated from, each id written once.
C6_ExampleKeysAreFigureIds ==
    PromptSent =>
        /\ JSONparse(promptText.example).ok
        /\ NoDuplicates(FinancialDataKeys)
        /\ {FinancialDataKeys[i] : i \in 1..Len(FinancialDataKeys)}
             = {RequestFigures[i].id : i \in 1..Len(RequestFigures)}
        /\ KeysOf(MemberVal(JSONparse(promptText.example).val, "financial_data"))
             = FinancialDataKeys

C6_Witness ==
    /\ PromptSent
    /\ promptText.rules = "timeseries"
    /\ backend = "rag"
    /\ Len(FinancialDataKeys) = 2
    /\ Len(RequestFigures) = 2

\* C7 as stated: a request whose figure list is empty never gets a prompt;
\* no other list stands in for the empty one.
C7_EmptyListNeverPrompted ==
    (payload.figures.given /\ payload.figures.list = <<>>) => ~promptText.made

\* C7 as amended: generation fails exactly when the list it works from is
\* empty, this list being the request's valid figures or, when there is
\* none, the enabled figures of the registry (the defaults while the file
\* is missing); a generated prompt never has zero target fields.
C7_FailsIffNoEffectiveFigure ==
    (promptText.made \/ promptText.thrown) =>
        /\ promptText.thrown <=> RequestFigures = <<>>
        /\ promptText.thrown => ~promptText.made
        /\ promptText.made => Len(promptText.figuresList) >= 1
        /\ PromptSent => Len(FinancialDataKeys) >= 1

C7_Witness ==
    /\ pc = "responded"
    /\ httpStatus = 500
    /\ promptText.thrown
    /\ payload.figures.given
    /\ payload.analysisType = "basic"

\* no figure is configured for the analysis the user starts
NoFiguresConfigured ==
    /\ caller = "ui"
    /\ \/ client.analysisMode = "config" /\ LoadAnalyzableFigures(registryFile) = <<>>
       \/ client.analysisMode = "excel" /\ client.analyzableFigures = <<>>

\* C8: when no figures are configured, no request reaches the chat
\* workspace or the direct-upload model in that action, and what the user
\* is shown at its end is an error.
C8_NoRequestWithoutFigures ==
    NoFiguresConfigured =>
        /\ backendRequests = 0
        /\ pc \notin {"awaiting", "received"}
        /\ pc = "responded" => httpStatus # 200
        /\ pc = "shown" => (error # "" /\ financialData = JNull)

C8_Witness ==
    /\ NoFiguresConfigured
    /\ client.analysisMode = "config"
    /\ client.analysisType = "timeseries"
    /\ pc = "shown"
    /\ promptText.thrown
    /\ error # ""
    /\ backendRequests = 0

ExpectedYears == [i \in 1..8 |-> ToString(serverYear - 4 + i)]

\* C9: with the current year Y, the years map of every figure in the
\* timeseries example has exactly the eight keys Y-3 .. Y+4 as strings, in
\* ascending order and without duplicates.
C9_EightYearWindow ==
    (PromptSent /\ promptText.rules = "timeseries") =>
        LET data == MemberVal(JSONparse(promptText.example).val, "financial_data") IN
        /\ \A i \in 1..Len(data.members) :
              KeysOf(MemberVal(data.members[i].val, "years")) = ExpectedYears
        /\ Len(KeysAtDepth(promptText.example, 4)) = 8 * Len(data.members)
        /\ \A i \in 1..7 : ExpectedYears[i] # ExpectedYears[i + 1]

C9_Witness ==
    /\ PromptSent
    /\ promptText.rules = "timeseries"
    /\ serverYear = LastYear
    /\ KeysAtDepth(promptText.example, 4) = ExpectedYears

(***************************************************************************)
(* Properties of the registry editor (SpecRegistry).                       *)
(***************************************************************************)
\* C10 as stated: once the save of reorder(id, pos), issued on a list of n
\* figures that contains id, has written the registry, the registry holds n
\* figures whose order fields are 1..n along the list, and the figure with
\* that id stands at position pos clamped into [1, n].
C10_ReorderKeepsOrders ==
    lastWrite.name = "reorder" =>
        LET n == lastWrite.n
            at == MaxOf({1, MinOf({n, lastWrite.pos})})
            figs == registryFile.figures IN
        /\ Len(figs) = n
        /\ \A i \in 1..Len(figs) : figs[i].order = i
        /\ at <= Len(figs)
        /\ figs[at].id = lastWrite.id

\* the same for the reorders issued on a list without a repeated id
ReorderOfDistinctIds ==
    (lastWrite.name = "reorder" /\ ~lastWrite.repeated) =>
        LET n == lastWrite.n
            at == MaxOf({1, MinOf({n, lastWrite.pos})})
            figs == registryFile.figures IN
        /\ Len(figs) = n
        /\ \A i \in 1..Len(figs) : figs[i].order = i
        /\ figs[at].id = lastWrite.id

\* C11 as stated: once the save of a create has written the registry, no
\* two entries of the registry share an id (a create whose id the registry
\* already holds fails).
C11_CreateKeepsIdsDistinct ==
    lastWrite.name = "add" =>
        NoDuplicates([i \in 1..Len(registryFile.figures) |->
                         registryFile.figures[i].id])

\* the entries of the persisted registry that a create of the editor made
CreatedEntries ==
    {i \in 1..Len(registryFile.figures) :
        registryFile.figures[i].id \notin IdsOf(UnsortedRegistry)}

\* C12: every entry of the persisted registry that was created through the
\* editor has an id that is not empty, consists of characters of [a-z0-9_]
\* only, and is the id derived from the name it was created with, whichever
\* whitespace surrounded the name when it was typed.
C12_CreatedIdsAreSlugs ==
    \A i \in CreatedEntries :
        LET figure == registryFile.figures[i] IN
        /\ figure.id # ""
        /\ \E typed \in TypedNames :
              /\ figure.id = Join(SlugOf(typed))
              /\ SlugOf(typed) # <<>>
              /\ \A k \in 1..Len(SlugOf(typed)) :
                    SlugOf(typed)[k] \in LowerAlnum \cup {"_"}
              /\ figure.name \in {Join(TrimChars(typed)), "Renamed"}
        /\ \A typed \in TypedNames :
              figure.name = Join(TrimChars(typed)) =>
                  /\ figure.id = generateId(typed)
                  /\ figure.id = generateId(TrimChars(typed))

C12_Witness ==
    /\ lastWrite.name = "add"
    /\ \E i \in CreatedEntries :
          /\ registryFile.figures[i].name = "P--1"
          /\ registryFile.figures[i].id = "p_1"

(***************************************************************************)
(* The editors creating figures only: every sequence of creates.           *)
(***************************************************************************)
NextCreate ==
    \/ loadFigures
    \/ addFigure
    \/ SaveCompletes

SpecCreate == InitRegistry /\ [][NextCreate]_vars

(***************************************************************************)
(* The spreadsheet import of the finance analyzer.                         *)
(***************************************************************************)
MaxRows == 3

RECURSIVE ReplaceNonAlnumRuns(_, _)
\* .toLowerCase().replace(/[^a-z0-9]+/g, '_'): every maximal run of other
\* characters becomes one underscore
ReplaceNonAlnumRuns(chars, inRun) ==
    IF chars = <<>> THEN <<>>
    ELSE IF LowerCase(Head(chars)) \in LowerAlnum
    THEN <<LowerCase(Head(chars))>> \o ReplaceNonAlnumRuns(Tail(chars), FALSE)
    ELSE (IF inRun THEN <<>> ELSE <<"_">>) \o ReplaceNonAlnumRuns(Tail(chars), TRUE)

slugifyFigureId(value, fallbackIndex) ==
    LET sanitized == Join(StripUnderscores(ReplaceNonAlnumRuns(value, FALSE))) IN
    IF sanitized # "" THEN sanitized
    ELSE "figure_" \o ToString(fallbackIndex + 1)

\* the faulty variant: a taken id gets the suffix _1 without looking further
FirstSuffixOnly(base, seenIds, counter) ==
    IF base \in seenIds THEN base \o "_1" ELSE base

RECURSIVE UnseenId(_, _, _)
\* let counter = 1; while (seenIds.has(id)) { id = `${base}_${counter}`; counter += 1 }
\* called with counter = 0 for the bare id
UnseenId(base, seenIds, counter) ==
    LET id == IF counter = 0 THEN base ELSE base \o "_" \o ToString(counter) IN
    IF id \in seenIds THEN UnseenId(base, seenIds, counter + 1) ELSE id

NoGuidance == "No guidance provided."

RECURSIVE ParseRows(_, _, _)
\* rows.map((row, index) => ...).filter(Boolean), rows from position index + 1 on
ParseRows(rows, index, seenIds) ==
    IF index >= Len(rows) THEN <<>>
    ELSE
        LET row == rows[index + 1]
            name == TrimChars(row.name)
            instructions == Join(TrimChars(row.instructions))
            id == UnseenId(slugifyFigureId(name, index), seenIds, 0)
        IN  IF name = <<>> THEN ParseRows(rows, index + 1, seenIds)
            ELSE <<Figure(id, Join(name),
                          IF instructions # "" THEN instructions ELSE NoGuidance)>>
                 \o ParseRows(rows, index + 1, seenIds \cup {id})

\* the faulty variant: an import without a valid row is accepted
ParsedFiguresUnchecked(rows) ==
    [ok |-> TRUE, figures |-> ParseRows(rows, 0, {})]

NoValidRows ==
    "No valid rows found. Please provide at least one row with \"Name\" and \"Instructions\" columns."

\* the figures of the first sheet, or the failure thrown when there is none
ParsedFigures(rows) ==
    LET parsedFigures == ParseRows(rows, 0, {}) IN
    [ok |-> parsedFigures # <<>>, figures |-> parsedFigures]

\* the rows of the first sheet with the name and instructions columns resolved
RowPool ==
    { [name |-> <<"R", "e", "v">>, instructions |-> <<"N", "e", "t">>],
      [name |-> <<"R", "e", "v", " ", "1">>, instructions |-> <<>>],
      [name |-> <<" ">>, instructions |-> <<"N", "e", "t">>],
      [name |-> <<"!">>, instructions |-> <<" ">>] }

RowLists == SeqsUpTo(RowPool, MaxRows)

importVars == <<registryFile, serverYear, caller, payload, promptText,
                backendRequests, steps, parsedData, httpStatus, responseError,
                rawText, pc, backend, editorVars, questionAnalyzer, storage,
                auth>>

\* the user picks a spreadsheet in the file input
chooseFile ==
    /\ ~chosenFile.present
    /\ \E rows \in RowLists : chosenFile' = [present |-> TRUE, rows |-> rows]
    /\ UNCHANGED <<client, financialData, error, importVars>>

handleExcelUpload ==
    /\ chosenFile.present
    /\ LET parsed == ParsedFigures(chosenFile.rows) IN
       IF parsed.ok
       THEN /\ client' = [client EXCEPT !.analyzableFigures = parsed.figures,
                                        !.uploadedFiguresName = "figures.xlsx",
                                        !.analysisMode = "excel",
                                        !.excelError = ""]
            /\ financialData' = JNull
       ELSE /\ client' = [client EXCEPT !.excelError = NoValidRows]
            /\ UNCHANGED financialData
    /\ error' = ""
    /\ chosenFile' = NoFile
    /\ UNCHANGED importVars

\* the mode switch of the analyzer, with the effect that follows a switch to
\* the configured figures
handleAnalysisModeChange ==
    /\ ~chosenFile.present
    /\ \E mode \in {"config", "excel"} :
          /\ mode # client.analysisMode
          /\ client' =
                IF mode = "config"
                THEN [client EXCEPT
                        !.analysisMode = mode,
                        !.uploadedFiguresName = "",
                        !.excelError = "",
                        !.analyzableFigures =
                            [i \in 1..Len(EnabledOf(registryFile)) |->
                                StripFigure(EnabledOf(registryFile)[i])]]
                ELSE [client EXCEPT !.analysisMode = mode,
                                    !.analyzableFigures = <<>>]
    /\ financialData' = JNull
    /\ UNCHANGED <<error, chosenFile, importVars>>

ShownResult == JObj(<<Member("revenue", JStr("1.2M"))>>)

InitImport ==
    /\ registryFile = [state |-> "ok", figures |-> UnsortedRegistry]
    /\ serverYear = FirstYear
    /\ backend = "rag"
    /\ caller = "ui"
    /\ client \in {c \in ClientStates(registryFile) :
                      c.analysisMode = "config" /\ c.files = 1}
    /\ payload = NoPayload
    /\ promptText = NoPrompt
    /\ backendRequests = 0
    /\ pc = "idle"
    /\ rawText = NoText
    /\ steps = <<>>
    /\ parsedData = JUndefined
    /\ httpStatus = 0
    /\ responseError = ""
    /\ financialData \in {JNull, ShownResult}
    /\ error \in {"", "Failed to analyze financial data"}
    /\ EditorsIdle

NextImport ==
    \/ chooseFile
    \/ handleExcelUpload
    \/ handleAnalysisModeChange

SpecImport == InitImport /\ [][NextImport]_vars

(***************************************************************************)
(* Properties of the spreadsheet import.                                   *)
(***************************************************************************)
\* the step in which the picked spreadsheet is imported
ImportStep == chosenFile.present /\ ~chosenFile'.present

\* the positions of the rows that have a name, in row order
RECURSIVE NamedRows(_, _)
NamedRows(rows, from) ==
    IF from > Len(rows) THEN <<>>
    ELSE (IF TrimChars(rows[from].name) # <<>> THEN <<from>> ELSE <<>>)
         \o NamedRows(rows, from + 1)

DerivedId(rows, position) ==
    slugifyFigureId(TrimChars(rows[position].name), position - 1)

Suffixed(base, k) == base \o "_" \o ToString(k)

\* C13 as stated: the nameless rows are dropped and a row deriving an id that
\* c earlier rows derived gets the suffix _c (none when c = 0).
SuffixesCountEarlierRows(rows, figs) ==
    LET named == NamedRows(rows, 1) IN
    /\ Len(figs) = Len(named)
    /\ \A j \in 1..Len(named) :
          LET base == DerivedId(rows, named[j])
              c == Cardinality({m \in 1..(j - 1) :
                                   DerivedId(rows, named[m]) = base})
          IN  figs[j].id = IF c = 0 THEN base ELSE Suffixed(base, c)

C13_SuffixesInRowOrder ==
    [][(ImportStep /\ client'.excelError = "") =>
           /\ SuffixesCountEarlierRows(chosenFile.rows, client'.analyzableFigures)
           /\ NoDuplicates([j \in 1..Len(client'.analyzableFigures) |->
                               client'.analyzableFigures[j].id])]_vars

\* the imported figures are the named rows in row order; each keeps its
\* derived id when no earlier figure has it, and otherwise gets the smallest
\* suffix _k (k >= 1) that makes an id no earlier figure has
SmallestFreeSuffix(rows, figs) ==
    LET named == NamedRows(rows, 1) IN
    /\ Len(figs) = Len(named)
    /\ \A j \in 1..Len(named) :
          LET base == DerivedId(rows, named[j])
              earlier == {figs[m].id : m \in 1..(j - 1)}
          IN  /\ figs[j].name = Join(TrimChars(rows[named[j]].name))
              /\ \/ figs[j].id = base /\ base \notin earlier
                 \/ /\ base \in earlier
                    /\ \E k \in 1..Len(rows) :
                          /\ figs[j].id = Suffixed(base, k)
                          /\ Suffixed(base, k) \notin earlier
                          /\ \A m \in 1..(k - 1) : Suffixed(base, m) \in earlier

\* C13, amended: an import drops the rows without a name, and a row whose
\* derived id is taken gets the smallest suffix _1, _2, ... that is still
\* free, so the ids of the imported figures are pairwise distinct.
C13_SmallestFreeSuffix ==
    [][(ImportStep /\ client'.excelError = "") =>
           /\ SmallestFreeSuffix(chosenFile.rows, client'.analyzableFigures)
           /\ NoDuplicates([j \in 1..Len(client'.analyzableFigures) |->
                               client'.analyzableFigures[j].id])]_vars

C13_Witness ==
    /\ ~chosenFile.present
    /\ client.excelError = ""
    /\ client.uploadedFiguresName # ""
    /\ Len(client.analyzableFigures) = 3
    /\ client.analyzableFigures[1].id = "rev"
    /\ client.analyzableFigures[2].id = "rev_1"
    /\ client.analyzableFigures[3].id = "rev_2"

HasValidRow(rows) == NamedRows(rows, 1) # <<>>

\* C14: an import whose rows hold no valid row ends with the descriptive
\* error and leaves the figure list, the uploaded file name, the analysis
\* mode and the shown results as they were; an import with a valid row among
\* invalid ones succeeds with one figure per valid row.
C14_FailedImportChangesNothing ==
    [][ImportStep =>
          IF HasValidRow(chosenFile.rows)
          THEN /\ client'.excelError = ""
               /\ client'.analysisMode = "excel"
               /\ Len(client'.analyzableFigures) = Len(NamedRows(chosenFile.rows, 1))
          ELSE /\ client'.excelError = NoValidRows
               /\ client'.analyzableFigures = client.analyzableFigures
               /\ client'.uploadedFiguresName = client.uploadedFiguresName
               /\ client'.analysisMode = client.analysisMode
               /\ client'.analysisType = client.analysisType
               /\ financialData' = financialData]_vars

\* a failed import in front of results and figures that are still there
C14_Witness ==
    /\ ~chosenFile.present
    /\ client.excelError = NoValidRows
    /\ client.analysisMode = "config"
    /\ client.analyzableFigures # <<>>
    /\ financialData = ShownResult

(***************************************************************************)
(* One editor, with the POST of a save and the arrival of its response as  *)
(* separate steps.                                                         *)
(***************************************************************************)
\* the faulty variant: the entries of the file that the request does not
\* name are kept
WrittenConfigMerged(file, figs) ==
    [state |-> "ok",
     figures |-> figs \o SelectSeq(file.figures,
                                   LAMBDA f : f.id \notin IdsOf(figs))]

\* fs.writeFileSync(CONFIG_PATH, JSON.stringify(config, null, 2))
WrittenConfig(file, figs) == [state |-> "ok", figures |-> figs]

Answered(r, answer) == [r EXCEPT !.answer = answer]

\* POST /api/analyzable-figures: validates, writes the whole file, answers
POST ==
    \E r \in savesInFlight :
        /\ r.answer = "none"
        /\ \/ /\ ValidConfig(r.figures)
              /\ registryFile' = WrittenConfig(registryFile, r.figures)
              /\ lastWrite' = r.op
              /\ savesInFlight' = (savesInFlight \ {r}) \cup {Answered(r, "ok")}
           \/ /\ ~ValidConfig(r.figures)
              /\ savesInFlight' = (savesInFlight \ {r}) \cup {Answered(r, "400")}
              /\ UNCHANGED <<registryFile, lastWrite>>
           \/ /\ savesInFlight' = (savesInFlight \ {r}) \cup {Answered(r, "500")}
              /\ UNCHANGED <<registryFile, lastWrite>>
        /\ UNCHANGED <<editorFigures, loading, saving, operations, analysisVars>>

\* saveFigures after the await: the response has arrived
saveFiguresResponse ==
    \E r \in savesInFlight :
        /\ r.answer # "none"
        /\ savesInFlight' = savesInFlight \ {r}
        /\ saving' = [saving EXCEPT ![r.editor] = FALSE]
        /\ editorFigures' = IF r.answer = "ok"
                            THEN [editorFigures EXCEPT ![r.editor] = r.figures]
                            ELSE editorFigures
        /\ UNCHANGED <<registryFile, lastWrite, loading, operations, analysisVars>>

\* saveFigures' catch: fetch rejects, whether or not the route has run
saveFiguresCatch ==
    \E r \in savesInFlight :
        /\ savesInFlight' = savesInFlight \ {r}
        /\ saving' = [saving EXCEPT ![r.editor] = FALSE]
        /\ UNCHANGED <<editorFigures, registryFile, lastWrite, loading, operations,
                       analysisVars>>

\* the second editor is never opened
OnlyFirstEditor == loading'["e2"]

NextOneEditor ==
    \/ loadFigures /\ OnlyFirstEditor
    \/ toggleFigure
    \/ updateFigure
    \/ deleteFigure
    \/ updateFigureOrder
    \/ moveFigureUp
    \/ moveFigureDown
    \/ addFigure
    \/ POST
    \/ saveFiguresResponse
    \/ saveFiguresCatch

SpecOneEditor == InitRegistry /\ [][NextOneEditor]_vars

SameEntries(a, b) ==
    /\ Len(a) = Len(b)
    /\ \A x \in {a[i] : i \in 1..Len(a)} \cup {b[i] : i \in 1..Len(b)} :
          Cardinality({i \in 1..Len(a) : a[i] = x})
              = Cardinality({i \in 1..Len(b) : b[i] = x})

\* C15 as stated: with one editor, once it has loaded and while none of its
\* saves is in flight, the list it shows holds the entries of the registry.
C15_EditorShowsRegistry ==
    (/\ ~loading["e1"]
     /\ savesInFlight = {}
     /\ registryFile.state = "ok"
     /\ lastWrite # NoOperation) =>
        SameEntries(editorFigures["e1"], registryFile.figures)

(***************************************************************************)
(* Two editors saving at the same time.                                    *)
(***************************************************************************)
NextTwoEditors ==
    \/ loadFigures
    \/ deleteFigure
    \/ addFigure
    \/ POST
    \/ saveFiguresResponse

SpecTwoEditors == InitRegistry /\ [][NextTwoEditors]_vars

\* C16: every change of the registry file installs the whole list of one
\* save that was waiting, so the file always holds the snapshot of the POST
\* that wrote last and never a mixture; a save is refused only for its own
\* content (400) or a server failure (500), never for the other editor's write.
C16_LastWriteWins ==
    [][/\ registryFile' # registryFile =>
            \E r \in savesInFlight :
                /\ r.answer = "none"
                /\ Answered(r, "ok") \in savesInFlight'
                /\ registryFile'.state = "ok"
                /\ registryFile'.figures = r.figures
                /\ lastWrite' = r.op
       /\ \A r \in savesInFlight' :
            /\ r.answer \in {"none", "ok", "400", "500"}
            /\ r.answer = "400" => ~ValidConfig(r.figures)]_vars

\* both editors' saves were in flight together, both were written, and the
\* file holds the list of the second editor
C16_Witness ==
    \E r1, r2 \in savesInFlight :
        /\ r1.editor = "e1" /\ r2.editor = "e2"
        /\ r1.answer = "ok" /\ r2.answer = "ok"
        /\ r1.figures # r2.figures
        /\ registryFile.figures = r2.figures
        /\ lastWrite = r2.op

(***************************************************************************)
(* The question analyzer: single runs and the run of all questions.        *)
(***************************************************************************)
MaxQuestions == 2
MaxRequests == 5

QuestionIds == [k \in 1..MaxQuestions |-> "q" \o ToString(k)]

questionVars == <<requestVars, interpVars, pc, backend, editorVars, chosenFile,
                  storage, auth>>

\* fetch('/api/analyze', ...) awaited by runQuestion
AnalyzeRequest(questionId, prompt, by) ==
    [questionId |-> questionId, prompt |-> prompt, by |-> by]

\* runQuestion up to its first await: the coverage request is sent
StartQuestion(qa, questionId, by) ==
    [qa EXCEPT !.loading = @ \cup {questionId},
               !.coverageLoading = @ \cup {questionId},
               !.requests = @ \cup {AnalyzeRequest(questionId, "coverage", by)},
               !.sent = @ + 1]

\* the faulty variant: the loop does not await runQuestion
LoopStartsUnawaited(questions, i) == (i + 1)..Len(questions)

\* the positions of the questions runAllQuestions starts when its loop is at
\* index i: await runQuestion(q.id) starts one
LoopStarts(questions, i) == {i + 1}

RECURSIVE StartQuestions(_, _)
StartQuestions(qa, positions) ==
    IF positions = {} THEN qa
    ELSE LET k == CHOOSE p \in positions : \A o \in positions : p <= o IN
         StartQuestions(StartQuestion(qa, qa.questions[k], "all"), positions \ {k})

\* the faulty variant: the loop of the run of all questions stops at a
\* question that failed
FinishQuestionStopsAtFailure(qa, r) ==
    LET done == [qa EXCEPT !.loading = @ \ {r.questionId},
                           !.coverageLoading = @ \ {r.questionId},
                           !.requests = @ \ {r}]
    IN  IF r.by # "all" \/ r.questionId \in qa.alerts THEN done
        ELSE IF qa.i + 1 < Len(qa.questions)
        THEN StartQuestions([done EXCEPT !.i = qa.i + 1],
                            LoopStarts(qa.questions, qa.i + 1))
        ELSE [done EXCEPT !.i = Len(qa.questions), !.loops = @ - 1]

\* runQuestion's finally, and for the run of all questions the next turn of
\* the loop or its end
FinishQuestion(qa, r) ==
    LET done == [qa EXCEPT !.loading = @ \ {r.questionId},
                           !.coverageLoading = @ \ {r.questionId},
                           !.requests = @ \ {r}]
    IN  IF r.by # "all" THEN done
        ELSE IF qa.i + 1 < Len(qa.questions)
        THEN StartQuestions([done EXCEPT !.i = qa.i + 1],
                            LoopStarts(qa.questions, qa.i + 1))
        ELSE [done EXCEPT !.i = Len(qa.questions), !.loops = @ - 1]

fetchQuestions ==
    /\ questionAnalyzer.questions = <<>>
    /\ \E n \in 1..MaxQuestions :
          questionAnalyzer' = [questionAnalyzer EXCEPT
                                 !.questions = SubSeq(QuestionIds, 1, n)]
    /\ UNCHANGED questionVars

\* the Run button of one question
runQuestion ==
    \E k \in 1..Len(questionAnalyzer.questions) :
        LET questionId == questionAnalyzer.questions[k] IN
        /\ questionId \notin questionAnalyzer.loading
        /\ questionAnalyzer.sent + 2 <= MaxRequests
        /\ questionAnalyzer' = StartQuestion(questionAnalyzer, questionId, "one")
        /\ UNCHANGED questionVars

\* the faulty variant: the running flag is not looked at
RunAllReturnsWhenEmpty(qa) ==
    IF qa.questions = <<>> THEN "empty" ELSE ""

\* if (runningAll || questions.length === 0) return; the flag is the one of
\* the last render, and React renders a click's state changes before the
\* next click is handled
RunAllReturns(qa) ==
    IF qa.runningAll THEN "running"
    ELSE IF qa.questions = <<>> THEN "empty" ELSE ""

\* the Run All button, or its handler called while the button is disabled
runAllQuestions ==
    /\ IF RunAllReturns(questionAnalyzer) # ""
       THEN questionAnalyzer' =
               [questionAnalyzer EXCEPT !.ignored = RunAllReturns(questionAnalyzer)]
       ELSE /\ questionAnalyzer.sent + 2 * Len(questionAnalyzer.questions)
                  <= MaxRequests
            /\ questionAnalyzer' =
                  StartQuestions([questionAnalyzer EXCEPT !.runningAll = TRUE,
                                                          !.i = 0,
                                                          !.loops = @ + 1],
                                 LoopStarts(questionAnalyzer.questions, 0))
    /\ UNCHANGED questionVars

\* the coverage request is answered (any status) and the main request sent,
\* or its fetch rejects and runQuestion ends with the alert
CoverageAnswered ==
    \E r \in questionAnalyzer.requests :
        /\ r.prompt = "coverage"
        /\ \/ questionAnalyzer' =
                 [questionAnalyzer EXCEPT
                    !.coverageLoading = @ \ {r.questionId},
                    !.requests = (@ \ {r}) \cup
                                   {AnalyzeRequest(r.questionId, "main", r.by)},
                    !.sent = @ + 1]
           \/ questionAnalyzer' =
                 FinishQuestion([questionAnalyzer EXCEPT
                                    !.alerts = @ \cup {r.questionId}], r)
        /\ UNCHANGED questionVars

\* the main request is answered: a result on 2xx, the alert otherwise
MainAnswered ==
    \E r \in questionAnalyzer.requests :
        /\ r.prompt = "main"
        /\ \/ questionAnalyzer' =
                 FinishQuestion([questionAnalyzer EXCEPT
                                    !.results = @ \cup {r.questionId}], r)
           \/ questionAnalyzer' =
                 FinishQuestion([questionAnalyzer EXCEPT
                                    !.alerts = @ \cup {r.questionId}], r)
        /\ UNCHANGED questionVars

\* setTimeout(() => setRunningAll(false), 300) once the loop is over
RunAllOver ==
    /\ questionAnalyzer.runningAll
    /\ questionAnalyzer.i = Len(questionAnalyzer.questions)
    /\ questionAnalyzer' = [questionAnalyzer EXCEPT !.runningAll = FALSE]
    /\ UNCHANGED questionVars

InitQuestions == InitRegistry

NextQuestions ==
    \/ fetchQuestions
    \/ runQuestion
    \/ runAllQuestions
    \/ CoverageAnswered
    \/ MainAnswered
    \/ RunAllOver

SpecQuestions == InitQuestions /\ [][NextQuestions]_vars

RequestsOfRunAll == {r \in questionAnalyzer.requests : r.by = "all"}

\* C17: the run of all questions has at most one request in flight, and that
\* request is for the question the loop is at: the questions before it have
\* finished (with a result or the alert), none after it has been started.
C17_RunAllIsSequential ==
    /\ Cardinality(RequestsOfRunAll) <= 1
    /\ \A r \in RequestsOfRunAll :
          /\ questionAnalyzer.runningAll
          /\ questionAnalyzer.i < Len(questionAnalyzer.questions)
          /\ r.questionId = questionAnalyzer.questions[questionAnalyzer.i + 1]
    /\ questionAnalyzer.runningAll =>
          \A k \in 1..questionAnalyzer.i :
              questionAnalyzer.questions[k]
                  \in questionAnalyzer.results \cup questionAnalyzer.alerts

\* the run of all questions is at its second question after the first failed
C17_Witness ==
    /\ questionAnalyzer.runningAll
    /\ questionAnalyzer.i = 1
    /\ "q1" \in questionAnalyzer.alerts
    /\ "q1" \notin questionAnalyzer.results
    /\ AnalyzeRequest("q2", "main", "all") \in questionAnalyzer.requests

\* C18 as stated: an analysis action has sent one request while it waits for
\* its backend and never sends a second one, whatever the backend answers.
C18_SingleRequestNoRetry ==
    /\ backendRequests <= 1
    /\ pc \in {"awaiting", "received"} => backendRequests = 1

\* what the editor renders: the skeleton while loading, else the list and the
\* "Saving configuration..." banner; it renders no message of a failure
EditorView(e) ==
    [figures |-> editorFigures[e], loading |-> loading[e], saving |-> saving[e],
     message |-> ""]

\* the view of an editor at rest that shows figs and nothing else
QuietView(figs) ==
    [figures |-> figs, loading |-> FALSE, saving |-> FALSE, message |-> ""]

\* C19 as stated, for the save of the registry: when a save has failed (the
\* route answered 400 or 500, or the fetch was rejected after such an answer),
\* the editor shows something that tells it: its view is not the plain list
\* it showed before the save.
C19_FailedSaveIsShown ==
    [][\A r \in savesInFlight :
          (r.answer \in {"400", "500"} /\ r \notin savesInFlight') =>
              EditorView(r.editor)' # QuietView(editorFigures[r.editor])]_vars

(***************************************************************************)
(* The result view of the finance analyzer.                                *)
(***************************************************************************)
HasProperty(v, key) ==
    /\ v.t = "obj"
    /\ \E i \in 1..Len(v.members) : v.members[i].key = key

\* v[key]: undefined when the object has no such member
Property(v, key) == IF HasProperty(v, key) THEN MemberVal(v, key) ELSE JUndefined

StringOr(v, other) == IF v.t = "str" /\ v.s # "" THEN v.s ELSE other

\* (value / unit).toFixed(1)
ToFixed1(value, unit) ==
    LET tenths == (value * 10 + unit \div 2) \div unit IN
    ToString(tenths \div 10) \o "." \o ToString(tenths % 10)

formatCurrency(value, currency) ==
    IF value.t \in {"null", "undefined"} THEN "Not found"
    ELSE IF value.t # "num" THEN StringOr(value, "") \o " " \o currency
    ELSE IF value.n >= 1000000000 THEN ToFixed1(value.n, 1000000000) \o "B " \o currency
    ELSE IF value.n >= 1000000 THEN ToFixed1(value.n, 1000000) \o "M " \o currency
    ELSE IF value.n >= 1000 THEN ToFixed1(value.n, 1000) \o "K " \o currency
    ELSE ToString(value.n) \o " " \o currency

\* data is TimeSeriesFinancialData
isTimeSeriesData(data) ==
    HasProperty(data, "analysis_type")
        /\ Property(data, "analysis_type") = JStr("timeseries")

NoRow == [shown |-> FALSE, metric |-> "", value |-> "", cells |-> <<>>]

\* the cells of a row of the time series table
YearCells(figureData, data) ==
    LET years == Property(figureData, "years") IN
    IF years.t # "obj" THEN <<>>
    ELSE [i \in 1..Len(years.members) |->
            LET yearData == years.members[i].val IN
            IF Property(yearData, "value") = JNull THEN "N/A"
            ELSE formatCurrency(Property(yearData, "value"),
                     StringOr(Property(yearData, "currency"),
                              StringOr(Property(data, "currency"), "")))]

\* analyzableFigures.map((figure) => ...) of both tables: the row of a
\* figure, or none when financial_data has no entry of the table's kind
TableRow(data, figure) ==
    LET figureData == Property(Property(data, "financial_data"), figure.id) IN
    IF ~Truthy(figureData) THEN NoRow
    ELSE IF isTimeSeriesData(data)
    THEN IF ~HasProperty(figureData, "years") THEN NoRow
         ELSE [shown |-> TRUE, metric |-> figure.name, value |-> "",
               cells |-> YearCells(figureData, data)]
    ELSE IF HasProperty(figureData, "years") THEN NoRow
         ELSE [shown |-> TRUE, metric |-> figure.name,
               value |-> formatCurrency(Property(figureData, "value"),
                            StringOr(Property(figureData, "currency"),
                                     StringOr(Property(data, "currency"), ""))),
               cells |-> <<>>]

\* the rows of the result table; reading financial_data[figure.id] throws
\* when the result has no financial_data object
ResultView(data, figures) ==
    IF figures # <<>> /\ Property(data, "financial_data").t # "obj"
    THEN [thrown |-> TRUE, rows |-> <<>>]
    ELSE [thrown |-> FALSE,
          rows |-> SelectSeq([i \in 1..Len(figures) |-> TableRow(data, figures[i])],
                             LAMBDA row : row.shown)]

\* C20 as stated: when a result with a financial_data object is shown, every
\* configured figure has a row in the result view, and the row of a figure
\* that financial_data has no entry for shows "Not found".
C20_MissingFigureShownNotFound ==
    (/\ pc = "shown"
     /\ financialData # JNull
     /\ Property(financialData, "financial_data").t = "obj") =>
        LET view == ResultView(financialData, client.analyzableFigures) IN
        /\ ~view.thrown
        /\ \A i \in 1..Len(client.analyzableFigures) :
              LET figure == client.analyzableFigures[i] IN
              \E k \in 1..Len(view.rows) :
                  /\ view.rows[k].metric = figure.name
                  /\ ~HasProperty(Property(financialData, "financial_data"), figure.id)
                        => view.rows[k].value = "Not found"

(***************************************************************************)
(* The prompt generators called with either framing.                       *)
(***************************************************************************)
\* figures whose texts may hold the placeholder of the subject name
PromptPool ==
    { Figure("revenue", "Revenue", "Total revenue"),
      Figure("growth", "Growth", CompanyPlaceholder),
      Figure("share", CompanyPlaceholder, "Market share") }

PromptRequests ==
    { [workspaceSlug |-> "acme", companyName |-> name, analysisType |-> type,
       figures |-> Override(l), files |-> 1]
      : name \in {"Acme", "the company"}, type \in {"basic", "timeseries"},
        l \in SeqsUpTo(PromptPool, MaxOverride) }

promptVars == <<registryFile, serverYear, caller, client, payload, backendRequests,
                backend, interpVars, editorVars, chosenFile, questionAnalyzer,
                storage, auth>>

generateFinancePrompt ==
    /\ pc = "idle"
    /\ payload.analysisType = "basic"
    /\ promptText' = GenerateFinancePrompt(payload.companyName, backend = "openai",
                                           OverrideFigures(payload.figures),
                                           registryFile)
    /\ pc' = "generated"
    /\ UNCHANGED promptVars

generateTimeSeriesFinancePrompt ==
    /\ pc = "idle"
    /\ payload.analysisType = "timeseries"
    /\ promptText' = GenerateTimeSeriesFinancePrompt(payload.companyName,
                                                     backend = "openai",
                                                     OverrideFigures(payload.figures),
                                                     registryFile, serverYear)
    /\ pc' = "generated"
    /\ UNCHANGED promptVars

InitPrompts ==
    /\ registryFile \in {f \in FewRegistryFiles : f.state # "corrupt"}
    /\ serverYear = FirstYear
    /\ backend \in {"rag", "openai"}
    /\ caller = "api"
    /\ client = NoClient
    /\ payload \in PromptRequests
    /\ promptText = NoPrompt
    /\ backendRequests = 0
    /\ pc = "idle"
    /\ rawText = NoText
    /\ InitInterp
    /\ EditorsIdle

NextPrompts ==
    \/ generateFinancePrompt
    \/ generateTimeSeriesFinancePrompt

SpecPrompts == InitPrompts /\ [][NextPrompts]_vars

\* the prompt the same call yields with the other framing
OtherFraming ==
    RoutePrompt(payload.companyName, backend # "openai", payload, registryFile,
                serverYear)

\* C21 as stated: the prompt generated with isOpenAI set and the one
\* generated with it unset, for the same subject name and figure list, have
\* the same figure list, rules, years and example JSON; only the lead differs.
C21_FramingChangesOnlyLead ==
    (pc = "generated" /\ promptText.made) =>
        /\ OtherFraming.made
        /\ OtherFraming.figuresList = promptText.figuresList
        /\ OtherFraming.rules = promptText.rules
        /\ OtherFraming.years = promptText.years
        /\ OtherFraming.example = promptText.example

(***************************************************************************)
(* A comprehensive analysis request to the OpenAI route.                   *)
(***************************************************************************)
\* analyzeComprehensiveWithOpenAI up to its fetch: the files and the
\* analysis type are posted, no figure list
analyzeComprehensiveWithOpenAI ==
    /\ pc = "idle"
    /\ IF client.files = 0
       THEN /\ error' = "Please select at least one PDF file"
            /\ pc' = "shown"
            /\ UNCHANGED <<payload, financialData>>
       ELSE /\ error' = ""
            /\ financialData' = JNull
            /\ payload' = [workspaceSlug |-> "", companyName |-> "",
                           analysisType |-> "comprehensive",
                           figures |-> NoOverride, files |-> client.files]
            /\ pc' = "posted"
    /\ UNCHANGED <<registryFile, serverYear, caller, client, promptText,
                   backendRequests, backend, rawText, steps, parsedData,
                   httpStatus, responseError>>
    /\ UNCHANGED <<editorVars, chosenFile, questionAnalyzer, storage, auth>>

InitComprehensive ==
    /\ registryFile \in RegistryFiles
    /\ serverYear = FirstYear
    /\ backend = "openai"
    /\ caller = "ui"
    /\ client \in ClientStates(registryFile)
    /\ payload = NoPayload
    /\ promptText = NoPrompt
    /\ backendRequests = 0
    /\ pc = "idle"
    /\ rawText = NoText
    /\ InitInterp
    /\ EditorsIdle

NextComprehensive ==
    \/ analyzeComprehensiveWithOpenAI
    \/ OpenAIRoute
    \/ BackendRespond
    \/ OpenAIInterpret

SpecComprehensive == InitComprehensive /\ [][NextComprehensive]_vars

\* C22 as stated: a comprehensive request reaches the model, and the prompt
\* sent for it is the one any other content of the figure registry would
\* have given.
C22_ComprehensiveIgnoresRegistry ==
    (payload.analysisType = "comprehensive" /\ pc \in {"awaiting", "responded"}) =>
        /\ promptText.made
        /\ \A file \in FewRegistryFiles :
              RoutePrompt("the company", TRUE, payload, file, serverYear) = promptText

(***************************************************************************)
(* Document storage: upload, download and delete of a workspace's files.   *)
(***************************************************************************)
MaxPath == 2
MaxStorageRequests == 2

RECURSIVE NormalizeOnto(_, _)
NormalizeOnto(done, segments) ==
    IF segments = <<>> THEN done
    ELSE IF Head(segments) = DotDot
         THEN NormalizeOnto(IF done = <<>> THEN <<>>
                            ELSE SubSeq(done, 1, Len(done) - 1), Tail(segments))
         ELSE NormalizeOnto(Append(done, Head(segments)), Tail(segments))

\* path.join: the segments in order, each ".." dropping the segment before it
PathJoin(dir, segments) == NormalizeOnto(<<>>, dir \o segments)

\* path.basename: the last segment, ".." included
basename(param) == IF param = <<>> THEN NoName ELSE param[Len(param)]

\* the slashes are removed, and a base name holds none
sanitizeFilename(filename) == filename

IsUnder(dir, path) ==
    Len(path) > Len(dir) /\ SubSeq(path, 1, Len(dir)) = dir

\* fs.readdir: the names of the files and folders directly in dir
readdir(files, dir) ==
    { path[Len(dir) + 1] : path \in { q \in DOMAIN files : IsUnder(dir, q) } }

IsFile(files, path) == path \in DOMAIN files

IsDirectory(files, path) == \E q \in DOMAIN files : IsUnder(path, q)

Unlink(files, paths) == [q \in DOMAIN files \ paths |-> files[q]]

\* the uuid of a name that ends in -<uuid>.json, "" for any other name
UuidMatch(name) == IF name.uuid # "" /\ name.suffix = "json" THEN name.uuid ELSE ""

\* the metadata file of an identifier when it exists and parses, as a set
readMetadata(files, storageDir, identifier) ==
    LET metadataPath == PathJoin(storageDir, <<Name(identifier, "", "", "meta.json")>>)
    IN  IF /\ identifier # ""
           /\ IsFile(files, metadataPath)
           /\ files[metadataPath] # NoMetadata
        THEN {metadataPath} ELSE {}

MetadataFiles(files, storageDir) ==
    { PathJoin(storageDir, <<entry>>) :
        entry \in { e \in readdir(files, storageDir) : e.suffix = "meta.json" } }

findMetadataByScan(files, storageDir, metadataId, docFilename, originalName) ==
    { path \in MetadataFiles(files, storageDir) :
        /\ IsFile(files, path)
        /\ files[path] # NoMetadata
        /\ \/ metadataId # "" /\ files[path].metadataId = metadataId
           \/ docFilename # NoName /\ files[path].docFilename = docFilename
           \/ originalName # NoName /\ files[path].originalName = originalName }

findMetadataCandidate(files, storageDir, documentUuid, docFilename, docId) ==
    { path \in MetadataFiles(files, storageDir) :
        /\ IsFile(files, path)
        /\ files[path] # NoMetadata
        /\ \/ documentUuid # "" /\ files[path].metadataId = documentUuid
           \/ docId # "" /\ files[path].docId = docId
           \/ docFilename # NoName /\ files[path].docFilename = docFilename }

\* a lookup that found nothing is the empty path
OrNone(found) == IF found = {} THEN {<<>>} ELSE found

SlugNames == {Plain("acme"), Plain("other"), DotDot}

\* the workspaceSlug parameter, split at its slashes
SlugParams == SeqsUpTo(SlugNames, MaxPath) \ {<<>>}

DocumentNames ==
    { Name("report", "pdf", "", ""), Name("report", "pdf", "u1", "json"),
      Name("legacy", "pdf", "", ""), Name("README", "md", "", "") }

\* the filename and documentPath parameters, split at their slashes
FilenameParams ==
    { <<name>> : name \in DocumentNames }
    \cup { <<DotDot, name>> : name \in DocumentNames }
    \cup { <<Plain("custom-documents"), name>> : name \in DocumentNames }

DocIdParams == {"", "u1"}

Uuids == {"u1", "u2"}

\* what the download did for one choice of the metadata entry and stored file
Downloaded(files, workspaceSlug, storageDir, requestedFilename, documentUuid, metadataEntry, storedFilename) ==
    LET filePath == PathJoin(storageDir, <<storedFilename>>)
        shouldPersist ==
            /\ metadataEntry # <<>>
            /\ \/ files[metadataEntry].metadataId = "" /\ documentUuid # ""
               \/ files[metadataEntry].docFilename = NoName
        persisted ==
            [files[metadataEntry] EXCEPT
               !.metadataId = IF @ = "" THEN documentUuid ELSE @,
               !.docFilename = IF @ = NoName THEN requestedFilename ELSE @]
        lookedUp == IF metadataEntry = <<>> THEN {} ELSE {metadataEntry}
    IN  IF storedFilename = NoName
           \/ ~(IsFile(files, filePath) \/ IsDirectory(files, filePath))
        THEN [files |-> files,
              access |-> [operation |-> "download", workspaceSlug |-> workspaceSlug,
                          paths |-> lookedUp, status |-> 404]]
        ELSE [files |-> IF shouldPersist
                        THEN [files EXCEPT ![metadataEntry] = persisted]
                        ELSE files,
              access |-> [operation |-> "download", workspaceSlug |-> workspaceSlug,
                          paths |-> lookedUp
                                    \cup (IF IsFile(files, filePath) THEN {filePath} ELSE {}),
                          status |-> IF IsFile(files, filePath) THEN 200 ELSE 500]]

\* GET /api/documents/download
downloadGET ==
    /\ storage.requests < MaxStorageRequests
    /\ \E workspaceSlug \in SlugParams, filenameParam \in FilenameParams,
          docIdParam \in DocIdParams :
         LET files == storage.files
             sanitizedWorkspace == basename(workspaceSlug)
             requestedFilename == sanitizeFilename(basename(filenameParam))
             documentUuid == UuidMatch(requestedFilename)
             filenameWithoutUuid ==
                 IF documentUuid # ""
                 THEN [requestedFilename EXCEPT !.uuid = "", !.suffix = ""]
                 ELSE IF requestedFilename.suffix = "json"
                      THEN [requestedFilename EXCEPT !.suffix = ""]
                      ELSE IF requestedFilename.suffix = "meta.json"
                           THEN [requestedFilename EXCEPT !.suffix = "meta"]
                           ELSE requestedFilename
             storageDir == PathJoin(StorageRoot, <<sanitizedWorkspace>>)
             byDocId == readMetadata(files, storageDir, docIdParam)
             byUuid == IF byDocId = {}
                       THEN readMetadata(files, storageDir, documentUuid)
                       ELSE byDocId
             found == IF byUuid = {}
                      THEN findMetadataByScan(files, storageDir, documentUuid,
                                              requestedFilename, filenameWithoutUuid)
                      ELSE byUuid
         IN  \E metadataEntry \in OrNone(found) :
               LET stored == IF metadataEntry = <<>> THEN NoName
                             ELSE files[metadataEntry].storedName
                   byPrefix == IF documentUuid = "" THEN {}
                               ELSE { f \in readdir(files, storageDir) :
                                        f.stem = documentUuid }
                   byName == { f \in readdir(files, storageDir) :
                                 f = filenameWithoutUuid }
                   candidates == IF stored # NoName THEN {stored}
                                 ELSE IF byPrefix # {} THEN byPrefix
                                      ELSE IF byName # {} THEN byName
                                           ELSE {NoName}
               IN  \E storedFilename \in candidates :
                     LET done == Downloaded(files, workspaceSlug, storageDir,
                                            requestedFilename, documentUuid,
                                            metadataEntry, storedFilename)
                     IN  storage' = [files |-> done.files, access |-> done.access,
                                     requests |-> storage.requests + 1]

\* what the delete did once AnythingLLM had removed the document
Deleted(files, workspaceSlug, documentPath, docIdParam, metadataEntry) ==
    LET storageDir == PathJoin(StorageRoot, workspaceSlug)
        filenameWithUUID == basename(documentPath)
        byMetadata ==
            IF metadataEntry = <<>> THEN {}
            ELSE {metadataEntry}
                 \cup (IF files[metadataEntry].storedName = NoName THEN {}
                       ELSE {PathJoin(storageDir, <<files[metadataEntry].storedName>>)})
        afterMetadata == Unlink(files, byMetadata)
        filenameWithHyphens ==
            IF UuidMatch(filenameWithUUID) # ""
            THEN [filenameWithUUID EXCEPT !.uuid = "", !.suffix = ""]
            ELSE filenameWithUUID
        legacy == { PathJoin(storageDir, <<f>>) :
                      f \in { g \in readdir(afterMetadata, storageDir) :
                                g = filenameWithHyphens } }
        unlinked == (byMetadata \cup legacy) \cap DOMAIN files
    IN  [files |-> Unlink(files, unlinked),
         access |-> [operation |-> "delete", workspaceSlug |-> workspaceSlug,
                     paths |-> unlinked, status |-> 200]]

\* DELETE /api/documents/delete
documentDELETE ==
    /\ storage.requests < MaxStorageRequests
    /\ \E workspaceSlug \in SlugParams, documentPath \in FilenameParams,
          docIdParam \in DocIdParams, removed \in BOOLEAN :
         LET files == storage.files
             storageDir == PathJoin(StorageRoot, workspaceSlug)
             documentUuid == UuidMatch(basename(documentPath))
             byUuid == readMetadata(files, storageDir, documentUuid)
             byDocId == IF byUuid = {}
                        THEN readMetadata(files, storageDir, docIdParam)
                        ELSE byUuid
             found == IF byDocId = {}
                      THEN findMetadataCandidate(files, storageDir, documentUuid,
                                                 basename(documentPath), docIdParam)
                      ELSE byDocId
         IN  IF ~removed
             THEN storage' = [storage EXCEPT
                                !.requests = @ + 1,
                                !.access = [operation |-> "delete",
                                            workspaceSlug |-> workspaceSlug,
                                            paths |-> {}, status |-> 500]]
             ELSE \E metadataEntry \in OrNone(found) :
                    LET done == Deleted(files, workspaceSlug, documentPath,
                                        docIdParam, metadataEntry)
                    IN  storage' = [files |-> done.files, access |-> done.access,
                                    requests |-> storage.requests + 1]

UploadNames == { Name("report", "pdf", "", ""), Name("notes", "", "", "") }

\* POST /api/documents/upload; AnythingLLM refuses the document or answers
\* with or without a metadata id, and randomUUID() fills in for a missing one
uploadPOST ==
    /\ storage.requests < MaxStorageRequests
    /\ \E workspaceSlug \in SlugParams, fileName \in UploadNames,
          metadataId \in Uuids \cup {""}, random \in Uuids, uploaded \in BOOLEAN :
         LET extension == IF fileName.ext # "" THEN fileName.ext ELSE "bin"
             uniqueId == IF metadataId # "" THEN metadataId ELSE random
             storageFilename == Name(uniqueId, extension, "", "")
             storageDir == PathJoin(StorageRoot, workspaceSlug)
             filePath == PathJoin(storageDir, <<storageFilename>>)
             metadataPath == PathJoin(storageDir, <<Name(uniqueId, "", "", "meta.json")>>)
             metadataPayload ==
                 [originalName |-> fileName, storedName |-> storageFilename,
                  docFilename |-> IF metadataId = "" THEN NoName
                                  ELSE [fileName EXCEPT !.uuid = metadataId,
                                                        !.suffix = "json"],
                  docId |-> "", metadataId |-> metadataId]
             written == [q \in DOMAIN storage.files \cup {filePath, metadataPath} |->
                           IF q = metadataPath THEN metadataPayload
                           ELSE IF q = filePath THEN NoMetadata
                                ELSE storage.files[q]]
         IN  IF ~uploaded
             THEN storage' = [storage EXCEPT
                                !.requests = @ + 1,
                                !.access = [operation |-> "upload",
                                            workspaceSlug |-> workspaceSlug,
                                            paths |-> {}, status |-> 500]]
             ELSE storage' = [files |-> written,
                              access |-> [operation |-> "upload",
                                          workspaceSlug |-> workspaceSlug,
                                          paths |-> {filePath, metadataPath},
                                          status |-> 200],
                              requests |-> storage.requests + 1]

storageVars == <<requestVars, interpVars, pc, backend, editorVars, chosenFile,
                 questionAnalyzer, auth>>

InitStorage == InitRegistry /\ registryFile = [state |-> "ok", figures |-> <<>>]

NextStorage ==
    \/ downloadGET /\ UNCHANGED storageVars
    \/ documentDELETE /\ UNCHANGED storageVars
    \/ uploadPOST /\ UNCHANGED storageVars

SpecStorage == InitStorage /\ [][NextStorage]_vars

\* a path lies in the storage folder of a workspace the slug names
InWorkspaceFolder(path, workspaceSlug) ==
    \E i \in 1..Len(workspaceSlug) :
        /\ workspaceSlug[i] # DotDot
        /\ IsUnder(StorageRoot \o <<workspaceSlug[i]>>, path)

\* C23 as stated: whatever workspaceSlug, filename and documentPath a request
\* carries, the files that upload, download and delete read, write and unlink
\* all lie inside the storage folder of the workspace named in the request.
C23_StorageStaysInWorkspace ==
    \A path \in storage.access.paths :
        InWorkspaceFolder(path, storage.access.workspaceSlug)

(***************************************************************************)
(* Two saves of one editor in flight together.                             *)
(***************************************************************************)
\* what a written list shows of a delete or of an add; the other mutations
\* are not told apart here
EffectIn(op, figs) ==
    /\ op.name = "delete" => op.id \notin IdsOf(figs)
    /\ op.name = "add" => op.id \in IdsOf(figs)

\* two saves of one editor, both written, the second one last
BothWritten(r1, r2) ==
    /\ r1.editor = r2.editor
    /\ r1.answer = "ok" /\ r2.answer = "ok"
    /\ r1.figures # r2.figures
    /\ r1.op.id # r2.op.id
    /\ registryFile.state = "ok"
    /\ registryFile.figures = r2.figures

\* C24 as stated: when one editor's second mutation is triggered before the
\* save of its first has completed, the registry written by the later save
\* holds the effect of both mutations.
C24_NoLostUpdate ==
    \A r1, r2 \in savesInFlight :
        BothWritten(r1, r2) => EffectIn(r1.op, registryFile.figures)

RunsInFlight(questionId) ==
    {r \in questionAnalyzer.requests : r.questionId = questionId}

\* C25 as stated: a question id has at most one analysis run in flight, the
\* runs of its own button and of the run of all questions counted together,
\* and the id is in the loading set exactly while a run for it is in flight.
C25_OneRunPerQuestion ==
    \A k \in 1..Len(questionAnalyzer.questions) :
        LET questionId == questionAnalyzer.questions[k] IN
        /\ Cardinality(RunsInFlight(questionId)) <= 1
        /\ questionId \in questionAnalyzer.loading
              <=> RunsInFlight(questionId) # {}

(***************************************************************************)
(* The figure list of the request and the prompt.                          *)
(***************************************************************************)
\* the prompt the route of the running backend makes with another registry
PromptWithRegistry(file) ==
    RoutePrompt(IF backend = "openai" THEN "the company" ELSE payload.companyName,
                backend = "openai", payload, file, serverYear)

\* C26 as stated: when the request carries a figure list, the prompt sent to
\* the backend lists exactly the valid figures of that list and is the same
\* whatever the registry holds.
C26_SuppliedListAlone ==
    (payload.figures.given /\ PromptSent) =>
        /\ promptText.figuresList = FiguresList(SanitizeFigures(payload.figures.list))
        /\ \A file \in FewRegistryFiles : PromptWithRegistry(file) = promptText

\* C26 as amended: when the request carries a figure list with at least one
\* valid figure, the prompt sent to the backend lists exactly the valid
\* figures of that list, its example has their ids as keys, and it is the
\* same whatever the registry holds; a list with no valid figure is treated
\* as absent.
C26_ValidSuppliedListAlone ==
    (payload.figures.given /\ PromptSent) =>
        IF SanitizeFigures(payload.figures.list) # <<>>
        THEN /\ promptText.figuresList
                   = FiguresList(SanitizeFigures(payload.figures.list))
             /\ {FinancialDataKeys[i] : i \in 1..Len(FinancialDataKeys)}
                   = IdsOf(SanitizeFigures(payload.figures.list))
             /\ \A file \in FewRegistryFiles : PromptWithRegistry(file) = promptText
        ELSE promptText.figuresList = FiguresList(LoadAnalyzableFigures(registryFile))

\* a prompt was sent for a supplied list while the registry holds enabled
\* figures with other names
C26_Witness ==
    /\ PromptSent
    /\ payload.figures.given
    /\ Len(SanitizeFigures(payload.figures.list)) = 1
    /\ Len(payload.figures.list) = 2
    /\ Len(LoadAnalyzableFigures(registryFile)) = 2
    /\ promptText.figuresList # FiguresList(LoadAnalyzableFigures(registryFile))

(***************************************************************************)
(* The order values of the registry the editor writes.                     *)
(***************************************************************************)
OrdersIncrease(figs) ==
    \A i, j \in 1..Len(figs) : i < j => figs[i].order < figs[j].order

\* the names typed into the add form here
FewNames ==
    \A r \in savesInFlight' \ savesInFlight :
        r.op.name = "add" => r.op.id \in {"rev", "p_1"}

InitOrders == InitRegistry /\ registryFile = [state |-> "ok", figures |-> UnsortedRegistry]

\* each operation is started once the save before it has completed
AfterSave == savesInFlight = {}

NextOrders ==
    \/ loadFigures /\ OnlyFirstEditor
    \/ toggleFigure /\ AfterSave
    \/ updateFigure /\ AfterSave
    \/ deleteFigure /\ AfterSave
    \/ updateFigureOrder /\ AfterSave
    \/ moveFigureUp /\ AfterSave
    \/ moveFigureDown /\ AfterSave
    \/ addFigure /\ FewNames /\ AfterSave
    \/ SaveCompletes

SpecOrders == InitOrders /\ [][NextOrders]_vars

\* C27: once the editor has written the registry, whatever the add, edit,
\* enable/disable, delete, reorder and move operations before, no two of its
\* figures share an order value and the order values increase along the
\* stored list, so that sorting by order gives the stored list and the list
\* the editor shows.
C27_OrdersDistinctAndIncreasing ==
    /\ lastWrite # NoOperation =>
          /\ OrdersIncrease(registryFile.figures)
          /\ SortByOrder(registryFile.figures) = registryFile.figures
    /\ \A e \in EditorIds :
          /\ OrdersIncrease(editorFigures[e])
          /\ SortByOrder(editorFigures[e]) = editorFigures[e]
    /\ \A r \in savesInFlight : OrdersIncrease(r.figures)

\* a delete has left a gap in the order values and a later add was written
C27_Witness ==
    /\ lastWrite.name = "add"
    /\ Len(registryFile.figures) = 2
    /\ registryFile.figures[1].order = 2
    /\ registryFile.figures[2].order = 3
    /\ editorFigures["e1"] = registryFile.figures

(***************************************************************************)
(* The run of all questions: one loop at a time, and its end.              *)
(***************************************************************************)
\* C28: at most one loop of the run of all questions is active at any time;
\* while one is active the running flag is set, and a Run All triggered then
\* starts nothing: its requests in flight stay those of the one loop.
C28_OneRunAllLoop ==
    /\ questionAnalyzer.loops <= 1
    /\ questionAnalyzer.loops = 1 => questionAnalyzer.runningAll
    /\ Cardinality(RequestsOfRunAll) <= questionAnalyzer.loops
    /\ questionAnalyzer.ignored = "running" => questionAnalyzer.questions # <<>>

\* Run All was triggered while the loop was at its second question and was
\* ignored
C28_Witness ==
    /\ questionAnalyzer.ignored = "running"
    /\ questionAnalyzer.loops = 1
    /\ questionAnalyzer.i = 1
    /\ RequestsOfRunAll = {AnalyzeRequest("q2", "coverage", "all")}

\* every request to the backend is answered or fails, and the timer that
\* resets the running flag fires
SpecQuestionsFair ==
    /\ SpecQuestions
    /\ WF_vars(CoverageAnswered)
    /\ WF_vars(MainAnswered)
    /\ WF_vars(RunAllOver)

RunAllEnded ==
    /\ ~questionAnalyzer.runningAll
    /\ questionAnalyzer.loading = {}
    /\ questionAnalyzer.coverageLoading = {}
    /\ \A k \in 1..Len(questionAnalyzer.questions) :
          questionAnalyzer.questions[k]
              \in questionAnalyzer.results \cup questionAnalyzer.alerts

\* C29: when every backend request is eventually answered or fails, a run of
\* all questions leads to the running flag being false with no question id
\* in the loading and coverage-loading sets, every question having been run
\* to a result or to the alert, whichever of them failed.
C29_RunAllEnds == questionAnalyzer.runningAll ~> RunAllEnded

\* a run of all questions has ended after its first question failed and its
\* second succeeded
C29_Witness ==
    /\ RunAllEnded
    /\ questionAnalyzer.i = 2
    /\ questionAnalyzer.alerts = {"q1"}
    /\ questionAnalyzer.results = {"q2"}
    /\ questionAnalyzer.sent = 3

(***************************************************************************)
(* Login and the middleware in front of the handlers.  A pathname is the   *)
(* sequence of its characters.                                             *)
(***************************************************************************)
MaxLogins == 2

ApiLogin == <<"/", "a", "p", "i", "/", "l", "o", "g", "i", "n">>
ApiLogout == <<"/", "a", "p", "i", "/", "l", "o", "g", "o", "u", "t">>
LoginPage == <<"/", "l", "o", "g", "i", "n">>
NextAssets == <<"/", "_", "n", "e", "x", "t">>
Favicon == <<"/", "f", "a", "v", "i", "c", "o", "n">>
ApiUpload == <<"/", "a", "p", "i", "/", "u", "p", "l", "o", "a", "d">>
ApiPrefix == <<"/", "a", "p", "i", "/">>
Home == <<"/">>
Dashboard == <<"/", "d", "a", "s", "h", "b", "o", "a", "r", "d">>
Admin == <<"/", "a", "d", "m", "i", "n">>

PUBLIC_PATHS == {ApiLogin, ApiLogout, LoginPage, NextAssets, Favicon, ApiUpload}

startsWith(pathname, prefix) ==
    Len(pathname) >= Len(prefix) /\ SubSeq(pathname, 1, Len(prefix)) = prefix

IsPublic(pathname) == \E p \in PUBLIC_PATHS : startsWith(pathname, p)

\* config.matcher: the paths the middleware runs on
Matcher(pathname) ==
    \/ startsWith(pathname, ApiPrefix)
    \/ pathname \in {Admin, Dashboard, LoginPage}

\* middleware(req), and next() for the paths outside of the matcher
middleware(pathname, token) ==
    IF ~Matcher(pathname) THEN "handler"
    ELSE IF IsPublic(pathname) THEN "handler"
    ELSE IF token = ""
         THEN IF pathname = Home \/ startsWith(pathname, Dashboard)
                 \/ startsWith(pathname, Admin)
              THEN "redirect"
              ELSE "401"
         ELSE "handler"

\* the requests sent here: the pages, three handlers and two look-alikes
Pathnames ==
    { Home, Dashboard, Admin, LoginPage,
      Dashboard \o <<"/", "x">>,
      ApiPrefix \o <<"f", "i", "n", "a", "n", "c", "e">>,
      ApiPrefix \o <<"w", "o", "r", "k", "s", "p", "a", "c", "e", "s">>,
      ApiPrefix \o <<"a", "n", "a", "l", "y", "z", "e">>,
      ApiUpload \o <<"s">> }

\* the tokens randomBytes(24) gives, in the order it gives them
Tokens == [k \in 1..MaxLogins |-> "t" \o ToString(k)]

\* the auth_token cookie of a request: none, one a login set, one made up
CookieValues == {""} \cup {Tokens[k] : k \in 1..MaxLogins} \cup {"forged"}

Users == {[username |-> "admin", password |-> "secret"]}

Credentials ==
    { [username |-> u, password |-> w] :
        u \in {"", "admin"}, w \in {"", "secret", "guess"} }

\* POST /api/login
login ==
    /\ Cardinality(auth.sessions) < MaxLogins
    /\ \E body \in Credentials :
         LET token == Tokens[Cardinality(auth.sessions) + 1] IN
         auth' =
            IF body.username = "" \/ body.password = ""
            THEN [auth EXCEPT !.request = [pathname |-> ApiLogin, token |-> "",
                                           answer |-> "400"]]
            ELSE IF body \notin Users
            THEN [auth EXCEPT !.request = [pathname |-> ApiLogin, token |-> "",
                                           answer |-> "401"]]
            ELSE [sessions |-> auth.sessions \cup {token},
                  request |-> [pathname |-> ApiLogin, token |-> token,
                               answer |-> "cookie"]]

\* any other request, with the cookie its sender chose
request ==
    \E pathname \in Pathnames, token \in CookieValues :
        auth' = [auth EXCEPT !.request = [pathname |-> pathname, token |-> token,
                                          answer |-> middleware(pathname, token)]]

authVars == <<requestVars, interpVars, pc, backend, editorVars, chosenFile,
              questionAnalyzer, storage>>

InitAuth == InitRegistry /\ registryFile = [state |-> "ok", figures |-> <<>>]

NextAuth ==
    \/ login /\ UNCHANGED authVars
    \/ request /\ UNCHANGED authVars

SpecAuth == InitAuth /\ [][NextAuth]_vars

\* C30 as stated: a request to a path that is not public reaches its handler
\* only with an auth_token cookie that a successful login issued; any other
\* such request is answered with the redirect to /login or with 401.
C30_HandlerNeedsIssuedToken ==
    (auth.request.answer \in {"handler", "redirect", "401"}
     /\ ~IsPublic(auth.request.pathname)) =>
        IF auth.request.token \in auth.sessions
        THEN auth.request.answer = "handler"
        ELSE auth.request.answer \in {"redirect", "401"}

====
